---- MODULE Spec2Model ----
(***************************************************************************)
(* Keyboard input engine of the keyboard viewer (src/hooks/useKeyboard.ts) *)
(* with the layer resolver and output lookup (src/utils/modifiers.ts) and  *)
(* the two components that own the active layout: the viewer island        *)
(* (src/islands/KeyboardViewer.tsx) and the embed island                   *)
(* (src/unnamed/part_005, KeyboardEmbed).                                  *)
(* The transformer from source definitions to layouts                     *)
(* (src/unnamed/part_006) and the layout route (src/unnamed/part_002) are  *)
(* modelled as functions of a source definition and a request.             *)
(*                                                                         *)
(* Characters are strings.  "^" and "~" stand for deadkey triggers and     *)
(* ACirc / ATilde for the composed characters of the deadkey tables.       *)
(***************************************************************************)
EXTENDS Naturals, Sequences, FiniteSets, TLC

VARIABLES
    layout,             \* id of the active layout, NoLayout when null
    inflight,           \* embed: layout requests that have not answered yet
    isShiftActive, shiftClickMode,
    isCapsLockActive,
    isAltActive, altClickMode,
    isCmdActive, cmdClickMode,
    isCtrlActive, ctrlClickMode,
    isSymbolsActive, isSymbols2Active,
    pendingDeadkey,     \* a character, or Null
    pressedKeyId,       \* a key id, or Null
    emitted,            \* consumer callbacks issued by the last step, in order
    last,               \* what the last step was (history, not program state)
    fnKey, fnLayer, fnOut,  \* input and result of the output lookup (SpecFn)
    kbdgenData,         \* transformer: the parsed source definition
    platform, variant,  \* transformer: the requested platform and variant
    txResult,           \* transformer: the function applied and its outcome
    resolved,           \* layer resolver: the resolutions made so far
    searchParam,        \* embed page: the "interactive" URL parameter, or Null
    selector,           \* GitHub selector: its signals, its hook state and
                        \* the fetches that have not answered yet
    delivered           \* GitHub selector: onLayoutLoaded calls of the last step

modvars == <<isShiftActive, shiftClickMode, isCapsLockActive, isAltActive,
             altClickMode, isCmdActive, cmdClickMode, isCtrlActive,
             ctrlClickMode, isSymbolsActive, isSymbols2Active>>
txvars == <<kbdgenData, platform, variant, txResult>>
pagevars == <<resolved, searchParam, selector, delivered>>
fnvars == <<fnKey, fnLayer, fnOut, txvars, pagevars>>
vars == <<layout, inflight, modvars, pendingDeadkey, pressedKeyId,
          emitted, last, fnvars>>

Null == "<null>"
NoLayout == "<none>"
Undefined == "<undefined>"

(***************************************************************************)
(* Key ids (src/constants/key-ids.ts)                                      *)
(***************************************************************************)
SHIFT_KEYS == {"ShiftLeft", "ShiftRight"}
ALT_KEYS == {"AltLeft", "AltRight"}
CMD_KEYS == {"MetaLeft", "MetaRight"}
CTRL_KEYS == {"ControlLeft", "ControlRight"}
CAPS_LOCK_KEY == "CapsLock"
SYMBOLS_KEYS == {"MobileSymbols", "MobileSymbols2"}
BACKSPACE_KEY == "Backspace"
ENTER_KEY == "Enter"
TAB_KEY == "Tab"

isShiftKey(keyId) == keyId \in SHIFT_KEYS
isCapsLockKey(keyId) == keyId = CAPS_LOCK_KEY
isAltKey(keyId) == keyId \in ALT_KEYS
isCmdKey(keyId) == keyId \in CMD_KEYS
isCtrlKey(keyId) == keyId \in CTRL_KEYS
isSymbolsKey(keyId) == keyId \in SYMBOLS_KEYS

(***************************************************************************)
(* Layer names (KeyLayers, src/types/keyboard-simple.ts)                   *)
(***************************************************************************)
DesktopLayerNames ==
    {"default", "shift", "caps", "caps+shift", "alt", "alt+shift", "ctrl",
     "ctrl+shift", "cmd", "cmd+shift", "cmd+alt", "cmd+alt+shift", "alt+caps"}
LayerNames == DesktopLayerNames \cup {"symbols-1", "symbols-2"}

(***************************************************************************)
(* Layer resolver (src/utils/modifiers.ts, getActiveLayer)                 *)
(***************************************************************************)
\* variant: the cmd+alt rule is tested before cmd+alt+shift
getActiveLayerCmdAltFirst(m) ==
    IF m.cmd /\ m.alt THEN "cmd+alt"
    ELSE IF m.cmd /\ m.alt /\ m.shift THEN "cmd+alt+shift"
    ELSE IF m.cmd /\ m.shift THEN "cmd+shift"
    ELSE IF m.cmd THEN "cmd"
    ELSE IF m.alt /\ m.shift THEN "alt+shift"
    ELSE IF m.alt /\ m.caps THEN "alt+caps"
    ELSE IF m.alt THEN "alt"
    ELSE IF m.ctrl /\ m.shift THEN "ctrl+shift"
    ELSE IF m.ctrl THEN "ctrl"
    ELSE IF m.caps /\ m.shift THEN "caps+shift"
    ELSE IF m.caps THEN "caps"
    ELSE IF m.shift THEN "shift"
    ELSE "default"

\* variant: the caps rule is tested before caps+shift
getActiveLayerCapsFirst(m) ==
    IF m.cmd /\ m.alt /\ m.shift THEN "cmd+alt+shift"
    ELSE IF m.cmd /\ m.alt THEN "cmd+alt"
    ELSE IF m.cmd /\ m.shift THEN "cmd+shift"
    ELSE IF m.cmd THEN "cmd"
    ELSE IF m.alt /\ m.shift THEN "alt+shift"
    ELSE IF m.alt /\ m.caps THEN "alt+caps"
    ELSE IF m.alt THEN "alt"
    ELSE IF m.ctrl /\ m.shift THEN "ctrl+shift"
    ELSE IF m.ctrl THEN "ctrl"
    ELSE IF m.caps THEN "caps"
    ELSE IF m.caps /\ m.shift THEN "caps+shift"
    ELSE IF m.shift THEN "shift"
    ELSE "default"

getActiveLayer(m) ==
    IF m.cmd /\ m.alt /\ m.shift THEN "cmd+alt+shift"
    ELSE IF m.cmd /\ m.alt THEN "cmd+alt"
    ELSE IF m.cmd /\ m.shift THEN "cmd+shift"
    ELSE IF m.cmd THEN "cmd"
    ELSE IF m.alt /\ m.shift THEN "alt+shift"
    ELSE IF m.alt /\ m.caps THEN "alt+caps"
    ELSE IF m.alt THEN "alt"
    ELSE IF m.ctrl /\ m.shift THEN "ctrl+shift"
    ELSE IF m.ctrl THEN "ctrl"
    ELSE IF m.caps /\ m.shift THEN "caps+shift"
    ELSE IF m.caps THEN "caps"
    ELSE IF m.shift THEN "shift"
    ELSE "default"

\* the ModifierState the hook builds from its signals
modifiers ==
    [shift |-> isShiftActive, caps |-> isCapsLockActive, alt |-> isAltActive,
     cmd |-> isCmdActive, ctrl |-> isCtrlActive]

\* variant: symbols mode is looked at only when no desktop layer applies
activeLayerDesktopFirst ==
    IF getActiveLayer(modifiers) # "default"
    THEN getActiveLayer(modifiers)
    ELSE IF isSymbolsActive
    THEN (IF isSymbols2Active THEN "symbols-2" ELSE "symbols-1")
    ELSE "default"

\* variant: a shift that is click-latched does not count as shift
activeLayerLatchedShiftIgnored ==
    IF isSymbolsActive
    THEN (IF isSymbols2Active THEN "symbols-2" ELSE "symbols-1")
    ELSE getActiveLayer([modifiers EXCEPT
                            !.shift = isShiftActive /\ ~shiftClickMode])

\* useComputed activeLayer of the hook
activeLayer ==
    IF isSymbolsActive
    THEN (IF isSymbols2Active THEN "symbols-2" ELSE "symbols-1")
    ELSE getActiveLayer(modifiers)

(***************************************************************************)
(* Output lookup.  A key's layers are a function from the layer names it   *)
(* defines to strings; an undefined entry is a name outside the domain.    *)
(***************************************************************************)
Truthy(layers, name) == name \in DOMAIN layers /\ layers[name] # ""

\* variant: the requested entry is tested for truthiness, like the fallbacks
getKeyOutputTruthy(key, layer) ==
    IF "layers" \notin DOMAIN key THEN ""
    ELSE IF Truthy(key.layers, layer) THEN key.layers[layer]
    ELSE IF layer = "symbols-2" /\ Truthy(key.layers, "symbols-1")
         THEN key.layers["symbols-1"]
    ELSE IF Truthy(key.layers, "default") THEN key.layers["default"]
    ELSE ""

getKeyOutput(key, layer) ==
    IF "layers" \notin DOMAIN key THEN ""
    ELSE IF layer \in DOMAIN key.layers THEN key.layers[layer]
    ELSE IF layer = "symbols-2" /\ Truthy(key.layers, "symbols-1")
         THEN key.layers["symbols-1"]
    ELSE IF Truthy(key.layers, "default") THEN key.layers["default"]
    ELSE ""

\* the viewer's own lookup (KeyboardViewer.tsx): no symbols fallback
getOutputChar(key, layer) ==
    IF layer \in DOMAIN key.layers THEN key.layers[layer]
    ELSE IF "default" \in DOMAIN key.layers THEN key.layers["default"]
    ELSE Undefined

(***************************************************************************)
(* Layouts.  Two layouts as the transformer builds them: a desktop layout  *)
(* (a few keys of each of the five fixed rows) and an iOS layout with the  *)
(* synthetic bottom row.  Non-default layers are present only when the     *)
(* source cell is non-empty; special keys come from SPECIAL_KEYS.          *)
(***************************************************************************)
\* control characters of the special keys
BackspaceChar == "<bs>"
TabChar == "<tab>"
Newline == "<nl>"

ACirc == "a-circumflex"
UpACirc == "A-circumflex"
ATilde == "a-tilde"

K(id, layers) == [id |-> id, layers |-> layers]
Special(id, out) == K(id, ("default" :> out))

KeyQ ==
    K("KeyQ", ("default" :> "q") @@ ("shift" :> "Q") @@ ("caps" :> "Q") @@
              ("caps+shift" :> "q") @@ ("alt" :> "@") @@ ("alt+shift" :> "#") @@
              ("alt+caps" :> "%") @@ ("ctrl" :> "c") @@ ("ctrl+shift" :> "C") @@
              ("cmd" :> "0") @@ ("cmd+shift" :> "1") @@ ("cmd+alt" :> "2") @@
              ("cmd+alt+shift" :> "3"))
KeyA ==
    K("KeyA", ("default" :> "a") @@ ("shift" :> "A") @@ ("caps" :> "A") @@
              ("caps+shift" :> "a"))
KeyEqual == K("Equal", ("default" :> "^"))
KeySlash == K("Slash", ("default" :> ""))

DesktopLayout ==
    [rows |-> << <<KeyEqual, Special("Backspace", BackspaceChar)>>,
                 <<Special("Tab", TabChar), KeyQ, Special("Enter", Newline)>>,
                 <<Special("CapsLock", ""), KeyA>>,
                 <<Special("ShiftLeft", ""), KeySlash>>,
                 <<Special("ControlLeft", ""), Special("MetaLeft", ""),
                   Special("AltLeft", "")>> >>,
     deadkeys |-> ("^" :> (("a" :> ACirc) @@ ("A" :> UpACirc))),
     isMobile |-> FALSE]

MobileLayout ==
    [rows |-> << <<K("mobile-r0-k0", ("default" :> "a") @@ ("shift" :> "A") @@
                                     ("symbols-1" :> "1") @@ ("symbols-2" :> "[")),
                   K("mobile-r0-k1", ("default" :> "z") @@ ("symbols-1" :> "2"))>>,
                 <<Special("ShiftLeft", ""),
                   K("mobile-r1-k1", ("default" :> "~")),
                   Special("Backspace", BackspaceChar)>>,
                 <<Special("MobileSymbols", ""), Special("Enter", Newline)>> >>,
     deadkeys |-> ("~" :> ("a" :> ATilde)),
     isMobile |-> TRUE]

LayoutIds == {"desktop", "mobile"}

\* requests of the embed that may be outstanding at the same time
MaxInflight == 1
Layouts == ("desktop" :> DesktopLayout) @@ ("mobile" :> MobileLayout)

\* every key of a layout, as the rendered keyboard offers them to a click
KeysOf(l) ==
    UNION {{Layouts[l].rows[r][k] : k \in DOMAIN Layouts[l].rows[r]} :
           r \in DOMAIN Layouts[l].rows}

\* physical key codes the browser may report; "F1" is on no layout
Codes ==
    {"KeyQ", "Backspace", "CapsLock", "ShiftLeft", "AltLeft", "MetaLeft",
     "ControlLeft", "F1"}
\* the physical keys pressed on a page that embeds the keyboard
EmbedCodes == {"KeyQ", "ShiftLeft", "F1"}

(***************************************************************************)
(* Helpers of the hook (src/hooks/useKeyboard.ts)                         *)
(***************************************************************************)
\* layout?.deadkeys ?? {}
deadkeyCombinations ==
    IF layout = NoLayout THEN <<>> ELSE Layouts[layout].deadkeys

\* variant: no character is recognised as a trigger
isDeadkeyNever(char) == FALSE

\* variant: the characters a trigger combines with are taken for triggers
isDeadkeyBaseChar(char) ==
    \E d \in DOMAIN deadkeyCombinations : char \in DOMAIN deadkeyCombinations[d]

isDeadkey(char) == char \in DOMAIN deadkeyCombinations

\* variant: the lookup never finds a combination
getDeadkeyCombinationNone(deadkey, char) == Null

getDeadkeyCombination(deadkey, char) ==
    IF deadkey \in DOMAIN deadkeyCombinations
       /\ char \in DOMAIN deadkeyCombinations[deadkey]
    THEN deadkeyCombinations[deadkey][char]
    ELSE Null

\* findKeyByCode: the first key with that id in row order, as a sequence
\* of length one; the empty sequence stands for undefined
RECURSIVE FindInRows(_, _, _)
FindInRows(rows, r, code) ==
    IF r > Len(rows) THEN <<>>
    ELSE LET hits == {k \in DOMAIN rows[r] : rows[r][k].id = code}
         IN IF hits # {}
            THEN <<rows[r][CHOOSE k \in hits : \A j \in hits : k <= j]>>
            ELSE FindInRows(rows, r + 1, code)

findKeyByCode(code) ==
    IF layout = NoLayout THEN <<>>
    ELSE FindInRows(Layouts[layout].rows, 1, code)

\* consumer callbacks
TextEvent(s) == [type |-> "text", text |-> s]
BackspaceEvent == [type |-> "backspace", text |-> ""]
ClearEvent == [type |-> "clear", text |-> ""]

\* variant: the latches are dropped but the modifiers stay on
exitClickModesKeepsFlags ==
    /\ shiftClickMode' = FALSE
    /\ altClickMode' = FALSE
    /\ cmdClickMode' = FALSE
    /\ ctrlClickMode' = FALSE
    /\ UNCHANGED <<isShiftActive, isAltActive, isCmdActive, isCtrlActive,
                   isCapsLockActive, isSymbolsActive, isSymbols2Active>>

\* variant: held modifiers are switched off as well
exitClickModesClearsHeld ==
    /\ isShiftActive' = FALSE
    /\ shiftClickMode' = FALSE
    /\ isAltActive' = FALSE
    /\ altClickMode' = FALSE
    /\ isCmdActive' = FALSE
    /\ cmdClickMode' = FALSE
    /\ isCtrlActive' = FALSE
    /\ ctrlClickMode' = FALSE
    /\ UNCHANGED <<isCapsLockActive, isSymbolsActive, isSymbols2Active>>

\* variant: caps is treated as a one-shot modifier too
exitClickModesClearsCaps ==
    /\ isShiftActive' = (IF shiftClickMode THEN FALSE ELSE isShiftActive)
    /\ shiftClickMode' = FALSE
    /\ isAltActive' = (IF altClickMode THEN FALSE ELSE isAltActive)
    /\ altClickMode' = FALSE
    /\ isCmdActive' = (IF cmdClickMode THEN FALSE ELSE isCmdActive)
    /\ cmdClickMode' = FALSE
    /\ isCtrlActive' = (IF ctrlClickMode THEN FALSE ELSE isCtrlActive)
    /\ ctrlClickMode' = FALSE
    /\ isCapsLockActive' = FALSE
    /\ UNCHANGED <<isSymbolsActive, isSymbols2Active>>

\* exitClickModes: a click-latched modifier is switched off with its latch;
\* caps and the symbols flags are not touched
exitClickModes ==
    /\ isShiftActive' = (IF shiftClickMode THEN FALSE ELSE isShiftActive)
    /\ shiftClickMode' = (IF shiftClickMode THEN FALSE ELSE shiftClickMode)
    /\ isAltActive' = (IF altClickMode THEN FALSE ELSE isAltActive)
    /\ altClickMode' = (IF altClickMode THEN FALSE ELSE altClickMode)
    /\ isCmdActive' = (IF cmdClickMode THEN FALSE ELSE isCmdActive)
    /\ cmdClickMode' = (IF cmdClickMode THEN FALSE ELSE cmdClickMode)
    /\ isCtrlActive' = (IF ctrlClickMode THEN FALSE ELSE isCtrlActive)
    /\ ctrlClickMode' = (IF ctrlClickMode THEN FALSE ELSE ctrlClickMode)
    /\ UNCHANGED <<isCapsLockActive, isSymbolsActive, isSymbols2Active>>

\* variant: the pressed-key indicator and the symbols page are forgotten
clearStateKeepsPressedKey ==
    /\ pendingDeadkey' = Null
    /\ isShiftActive' = FALSE
    /\ shiftClickMode' = FALSE
    /\ isCapsLockActive' = FALSE
    /\ isAltActive' = FALSE
    /\ altClickMode' = FALSE
    /\ isCmdActive' = FALSE
    /\ cmdClickMode' = FALSE
    /\ isCtrlActive' = FALSE
    /\ ctrlClickMode' = FALSE
    /\ isSymbolsActive' = FALSE
    /\ UNCHANGED <<isSymbols2Active, pressedKeyId>>
    /\ emitted' = <<ClearEvent>>

\* clearState: every signal back to its initial value, then onClear
clearState ==
    /\ pendingDeadkey' = Null
    /\ isShiftActive' = FALSE
    /\ shiftClickMode' = FALSE
    /\ isCapsLockActive' = FALSE
    /\ isAltActive' = FALSE
    /\ altClickMode' = FALSE
    /\ isCmdActive' = FALSE
    /\ cmdClickMode' = FALSE
    /\ isCtrlActive' = FALSE
    /\ ctrlClickMode' = FALSE
    /\ isSymbolsActive' = FALSE
    /\ isSymbols2Active' = FALSE
    /\ pressedKeyId' = Null
    /\ emitted' = <<ClearEvent>>

(***************************************************************************)
(* History of the last step                                                *)
(***************************************************************************)
Kind(keyId) ==
    IF isShiftKey(keyId) \/ isCapsLockKey(keyId) \/ isAltKey(keyId)
       \/ isCmdKey(keyId) \/ isCtrlKey(keyId) \/ isSymbolsKey(keyId)
    THEN "modifier"
    ELSE IF keyId = BACKSPACE_KEY THEN "backspace"
    ELSE IF keyId = ENTER_KEY THEN "enter"
    ELSE IF keyId = TAB_KEY THEN "tab"
    ELSE "printable"

\* op: click, keydown, keyup, clear, load, fetch, ignored, init
\* layer, output: the layer the step resolved the key on and what it found
\* latch: the step is on a modifier key whose click-latch was set before it
KeyStep(op, key) ==
    [op |-> op, key |-> key.id, kind |-> Kind(key.id), layer |-> activeLayer,
     output |-> IF Kind(key.id) = "printable"
                THEN getKeyOutput(key, activeLayer) ELSE Null,
     latch |-> \/ isShiftKey(key.id) /\ shiftClickMode
               \/ isAltKey(key.id) /\ altClickMode
               \/ isCmdKey(key.id) /\ cmdClickMode
               \/ isCtrlKey(key.id) /\ ctrlClickMode]
OtherStep(op) ==
    [op |-> op, key |-> Null, kind |-> Null, layer |-> Null, output |-> Null,
     latch |-> FALSE]


(***************************************************************************)
(* handleKeyClick (src/hooks/useKeyboard.ts) and its branches              *)
(***************************************************************************)
\* variant: Backspace deletes even when it cancels a pending deadkey
handleBackspaceKeyAlwaysDeletes ==
    /\ pendingDeadkey' = Null
    /\ emitted' = <<BackspaceEvent>>
    /\ exitClickModes

\* Backspace: a pending deadkey is cancelled instead of deleting
handleBackspaceKey ==
    /\ pendingDeadkey' = Null
    /\ emitted' = (IF pendingDeadkey # Null THEN <<>>
                   ELSE <<BackspaceEvent>>)
    /\ exitClickModes

\* variant: the newline is written before the pending deadkey
handleEnterKeyNewlineFirst ==
    /\ emitted' = (IF pendingDeadkey # Null
                   THEN <<TextEvent(Newline), TextEvent(pendingDeadkey)>>
                   ELSE <<TextEvent(Newline)>>)
    /\ pendingDeadkey' = Null
    /\ exitClickModes

\* Enter: a pending deadkey is written out first
handleEnterKey ==
    /\ emitted' = (IF pendingDeadkey # Null
                   THEN <<TextEvent(pendingDeadkey), TextEvent(Newline)>>
                   ELSE <<TextEvent(Newline)>>)
    /\ pendingDeadkey' = Null
    /\ exitClickModes

\* variant: Tab writes the pending deadkey out and keeps it pending
handleTabKeyKeepsDeadkey ==
    /\ emitted' = (IF pendingDeadkey # Null
                   THEN <<TextEvent(pendingDeadkey), TextEvent(TabChar)>>
                   ELSE <<TextEvent(TabChar)>>)
    /\ UNCHANGED pendingDeadkey
    /\ exitClickModes

\* Tab: a pending deadkey is written out first
handleTabKey ==
    /\ emitted' = (IF pendingDeadkey # Null
                   THEN <<TextEvent(pendingDeadkey), TextEvent(TabChar)>>
                   ELSE <<TextEvent(TabChar)>>)
    /\ pendingDeadkey' = Null
    /\ exitClickModes

\* variant: a key without output still ends the one-shot modifiers
handlePrintableKeyConsumesLatch(key) ==
    LET output == getKeyOutput(key, activeLayer)
        charToAdd == output
        combination == getDeadkeyCombination(pendingDeadkey, charToAdd)
    IN  IF output = "" THEN
            /\ UNCHANGED pendingDeadkey
            /\ emitted' = <<>>
            /\ exitClickModes
        ELSE IF pendingDeadkey # Null THEN
            /\ emitted' = (IF combination # Null
                           THEN <<TextEvent(combination)>>
                           ELSE <<TextEvent(pendingDeadkey \o charToAdd)>>)
            /\ pendingDeadkey' = Null
            /\ exitClickModes
        ELSE IF isDeadkey(charToAdd) THEN
            /\ pendingDeadkey' = charToAdd
            /\ emitted' = <<>>
            /\ exitClickModes
        ELSE
            /\ emitted' = <<TextEvent(charToAdd)>>
            /\ UNCHANGED pendingDeadkey
            /\ exitClickModes

\* variant: a key that only arms a deadkey leaves the one-shot modifiers on
handlePrintableKeyTriggerKeepsLatch(key) ==
    LET output == getKeyOutput(key, activeLayer)
        charToAdd == output
        combination == getDeadkeyCombination(pendingDeadkey, charToAdd)
    IN  IF output = "" THEN
            /\ UNCHANGED <<modvars, pendingDeadkey>>
            /\ emitted' = <<>>
        ELSE IF pendingDeadkey # Null THEN
            /\ emitted' = (IF combination # Null
                           THEN <<TextEvent(combination)>>
                           ELSE <<TextEvent(pendingDeadkey \o charToAdd)>>)
            /\ pendingDeadkey' = Null
            /\ exitClickModes
        ELSE IF isDeadkey(charToAdd) THEN
            /\ pendingDeadkey' = charToAdd
            /\ emitted' = <<>>
            /\ UNCHANGED modvars
        ELSE
            /\ emitted' = <<TextEvent(charToAdd)>>
            /\ UNCHANGED pendingDeadkey
            /\ exitClickModes

\* any other key: look its output up on the active layer
handlePrintableKey(key) ==
    LET output == getKeyOutput(key, activeLayer)
        charToAdd == output
        combination == getDeadkeyCombination(pendingDeadkey, charToAdd)
    IN  IF output = "" THEN
            /\ UNCHANGED <<modvars, pendingDeadkey>>
            /\ emitted' = <<>>
        ELSE IF pendingDeadkey # Null THEN
            /\ emitted' = (IF combination # Null
                           THEN <<TextEvent(combination)>>
                           ELSE <<TextEvent(pendingDeadkey \o charToAdd)>>)
            /\ pendingDeadkey' = Null
            /\ exitClickModes
        ELSE IF isDeadkey(charToAdd) THEN
            /\ pendingDeadkey' = charToAdd
            /\ emitted' = <<>>
            /\ exitClickModes
        ELSE
            /\ emitted' = <<TextEvent(charToAdd)>>
            /\ UNCHANGED pendingDeadkey
            /\ exitClickModes

\* variant: leaving symbols mode keeps the symbols-2 page selected
handleSymbolsKeyKeepsPage ==
    /\ isSymbolsActive' = ~isSymbolsActive
    /\ UNCHANGED <<isShiftActive, shiftClickMode, isCapsLockActive,
                   isAltActive, altClickMode, isCmdActive, cmdClickMode,
                   isCtrlActive, ctrlClickMode,
                   isSymbols2Active, pendingDeadkey>>
    /\ emitted' = <<>>

\* the mobile symbols key: toggle symbols mode, back to symbols-1 on leaving
handleSymbolsKey ==
    /\ isSymbolsActive' = ~isSymbolsActive
    /\ isSymbols2Active' = (IF isSymbolsActive THEN FALSE
                            ELSE isSymbols2Active)
    /\ UNCHANGED <<isShiftActive, shiftClickMode, isCapsLockActive,
                   isAltActive, altClickMode, isCmdActive, cmdClickMode,
                   isCtrlActive, ctrlClickMode,
                   pendingDeadkey>>
    /\ emitted' = <<>>

\* variant: a click on Shift cancels the pending deadkey
handleShiftKeyCancelsDeadkey ==
    /\ IF isSymbolsActive
       THEN /\ isSymbols2Active' = ~isSymbols2Active
            /\ UNCHANGED <<isShiftActive, shiftClickMode>>
       ELSE /\ isShiftActive' = ~isShiftActive
            /\ shiftClickMode' = ~isShiftActive
            /\ UNCHANGED isSymbols2Active
    /\ pendingDeadkey' = Null
    /\ UNCHANGED <<isCapsLockActive, isAltActive, altClickMode, isCmdActive,
                   cmdClickMode, isCtrlActive, ctrlClickMode, isSymbolsActive>>
    /\ emitted' = <<>>

\* variant: a click on Shift toggles shift in symbols mode too
handleShiftKeyIgnoresSymbols ==
    /\ isShiftActive' = ~isShiftActive
    /\ shiftClickMode' = ~isShiftActive
    /\ UNCHANGED <<isCapsLockActive, isAltActive, altClickMode, isCmdActive,
                   cmdClickMode, isCtrlActive, ctrlClickMode, isSymbolsActive,
                   isSymbols2Active, pendingDeadkey>>
    /\ emitted' = <<>>

\* a click on Shift: the symbols page in symbols mode, the shift latch
\* otherwise
handleShiftKey ==
    IF isSymbolsActive
    THEN /\ isSymbols2Active' = ~isSymbols2Active
         /\ UNCHANGED <<isShiftActive, shiftClickMode, isCapsLockActive,
                        isAltActive, altClickMode, isCmdActive, cmdClickMode,
                        isCtrlActive, ctrlClickMode, isSymbolsActive,
                        pendingDeadkey>>
         /\ emitted' = <<>>
    ELSE /\ isShiftActive' = ~isShiftActive
         /\ shiftClickMode' = ~isShiftActive
         /\ UNCHANGED <<isCapsLockActive, isAltActive, altClickMode,
                        isCmdActive, cmdClickMode, isCtrlActive,
                        ctrlClickMode, isSymbolsActive, isSymbols2Active,
                        pendingDeadkey>>
         /\ emitted' = <<>>

handleKeyClick(key) ==
    IF isShiftKey(key.id) THEN handleShiftKey
    ELSE IF isCapsLockKey(key.id) THEN
        /\ isCapsLockActive' = ~isCapsLockActive
        /\ UNCHANGED <<isShiftActive, shiftClickMode, isAltActive,
                       altClickMode, isCmdActive, cmdClickMode, isCtrlActive,
                       ctrlClickMode, isSymbolsActive, isSymbols2Active,
                       pendingDeadkey>>
        /\ emitted' = <<>>
    ELSE IF isAltKey(key.id) THEN
        /\ isAltActive' = ~isAltActive
        /\ altClickMode' = ~isAltActive
        /\ UNCHANGED <<isShiftActive, shiftClickMode, isCapsLockActive,
                       isCmdActive, cmdClickMode, isCtrlActive, ctrlClickMode,
                       isSymbolsActive, isSymbols2Active,
                       pendingDeadkey>>
        /\ emitted' = <<>>
    ELSE IF isCmdKey(key.id) THEN
        /\ isCmdActive' = ~isCmdActive
        /\ cmdClickMode' = ~isCmdActive
        /\ UNCHANGED <<isShiftActive, shiftClickMode, isCapsLockActive,
                       isAltActive, altClickMode, isCtrlActive, ctrlClickMode,
                       isSymbolsActive, isSymbols2Active,
                       pendingDeadkey>>
        /\ emitted' = <<>>
    ELSE IF isCtrlKey(key.id) THEN
        /\ isCtrlActive' = ~isCtrlActive
        /\ ctrlClickMode' = ~isCtrlActive
        /\ UNCHANGED <<isShiftActive, shiftClickMode, isCapsLockActive,
                       isAltActive, altClickMode, isCmdActive, cmdClickMode,
                       isSymbolsActive, isSymbols2Active,
                       pendingDeadkey>>
        /\ emitted' = <<>>
    ELSE IF isSymbolsKey(key.id) THEN handleSymbolsKey
    ELSE IF key.id = BACKSPACE_KEY THEN handleBackspaceKey
    ELSE IF key.id = ENTER_KEY THEN handleEnterKey
    ELSE IF key.id = TAB_KEY THEN handleTabKey
    ELSE handlePrintableKey(key)

(***************************************************************************)
(* Physical input (the keydown / keyup listeners of the hook).  They are   *)
(* registered only while a layout is set; editable is true when the event  *)
(* targets a textarea that is not read-only.                               *)
(***************************************************************************)
handleKeyDown(code, editable) ==
    LET found == findKeyByCode(code)
        key == found[1]
    IN  IF editable \/ found = <<>> THEN
            /\ UNCHANGED <<modvars, pendingDeadkey, pressedKeyId>>
            /\ emitted' = <<>>
            /\ last' = OtherStep("ignored")
        ELSE IF isShiftKey(key.id) THEN
            /\ pressedKeyId' = key.id
            /\ isShiftActive' = TRUE
            /\ shiftClickMode' = FALSE
            /\ UNCHANGED <<isCapsLockActive, isAltActive, altClickMode,
                           isCmdActive, cmdClickMode, isCtrlActive,
                           ctrlClickMode,
                           isSymbolsActive, isSymbols2Active, pendingDeadkey>>
            /\ emitted' = <<>>
            /\ last' = KeyStep("keydown", key)
        ELSE IF isCapsLockKey(key.id) THEN
            /\ isCapsLockActive' = ~isCapsLockActive
            /\ UNCHANGED <<isShiftActive, shiftClickMode, isAltActive,
                           altClickMode, isCmdActive, cmdClickMode,
                           isCtrlActive, ctrlClickMode, isSymbolsActive,
                           isSymbols2Active,
                           pendingDeadkey, pressedKeyId>>
            /\ emitted' = <<>>
            /\ last' = KeyStep("keydown", key)
        ELSE IF isAltKey(key.id) THEN
            /\ pressedKeyId' = key.id
            /\ isAltActive' = TRUE
            /\ altClickMode' = FALSE
            /\ UNCHANGED <<isShiftActive, shiftClickMode, isCapsLockActive,
                           isCmdActive, cmdClickMode, isCtrlActive,
                           ctrlClickMode,
                           isSymbolsActive, isSymbols2Active, pendingDeadkey>>
            /\ emitted' = <<>>
            /\ last' = KeyStep("keydown", key)
        ELSE IF isCmdKey(key.id) THEN
            /\ pressedKeyId' = key.id
            /\ isCmdActive' = TRUE
            /\ cmdClickMode' = FALSE
            /\ UNCHANGED <<isShiftActive, shiftClickMode, isCapsLockActive,
                           isAltActive, altClickMode, isCtrlActive,
                           ctrlClickMode,
                           isSymbolsActive, isSymbols2Active, pendingDeadkey>>
            /\ emitted' = <<>>
            /\ last' = KeyStep("keydown", key)
        ELSE IF isCtrlKey(key.id) THEN
            /\ pressedKeyId' = key.id
            /\ isCtrlActive' = TRUE
            /\ ctrlClickMode' = FALSE
            /\ UNCHANGED <<isShiftActive, shiftClickMode, isCapsLockActive,
                           isAltActive, altClickMode, isCmdActive,
                           cmdClickMode,
                           isSymbolsActive, isSymbols2Active, pendingDeadkey>>
            /\ emitted' = <<>>
            /\ last' = KeyStep("keydown", key)
        ELSE
            /\ pressedKeyId' = key.id
            /\ handleKeyClick(key)
            /\ last' = KeyStep("keydown", key)

\* variant: the key-up of a modifier releases it even when it is latched
handleKeyUpIgnoresLatch(code, editable) ==
    LET found == findKeyByCode(code)
        id == IF found = <<>> THEN Null ELSE found[1].id
    IN  IF editable THEN
            /\ UNCHANGED <<modvars, pendingDeadkey, pressedKeyId>>
            /\ emitted' = <<>>
            /\ last' = OtherStep("ignored")
        ELSE
            /\ isShiftActive' = (IF isShiftKey(id) THEN FALSE ELSE isShiftActive)
            /\ isAltActive' = (IF isAltKey(id) THEN FALSE ELSE isAltActive)
            /\ isCmdActive' = (IF isCmdKey(id) THEN FALSE ELSE isCmdActive)
            /\ isCtrlActive' = (IF isCtrlKey(id) THEN FALSE ELSE isCtrlActive)
            /\ pressedKeyId' = Null
            /\ UNCHANGED <<shiftClickMode, altClickMode, cmdClickMode,
                           ctrlClickMode, isCapsLockActive, isSymbolsActive,
                           isSymbols2Active,
                           pendingDeadkey>>
            /\ emitted' = <<>>
            /\ last' = IF found = <<>> THEN OtherStep("keyup")
                       ELSE [KeyStep("keyup", found[1]) EXCEPT !.output = Null]

handleKeyUp(code, editable) ==
    LET found == findKeyByCode(code)
        id == IF found = <<>> THEN Null ELSE found[1].id
    IN  IF editable THEN
            /\ UNCHANGED <<modvars, pendingDeadkey, pressedKeyId>>
            /\ emitted' = <<>>
            /\ last' = OtherStep("ignored")
        ELSE
            /\ isShiftActive' = (IF isShiftKey(id) /\ ~shiftClickMode
                                 THEN FALSE ELSE isShiftActive)
            /\ isAltActive' = (IF isAltKey(id) /\ ~altClickMode
                               THEN FALSE ELSE isAltActive)
            /\ isCmdActive' = (IF isCmdKey(id) /\ ~cmdClickMode
                               THEN FALSE ELSE isCmdActive)
            /\ isCtrlActive' = (IF isCtrlKey(id) /\ ~ctrlClickMode
                                THEN FALSE ELSE isCtrlActive)
            /\ pressedKeyId' = Null
            /\ UNCHANGED <<shiftClickMode, altClickMode, cmdClickMode,
                           ctrlClickMode, isCapsLockActive, isSymbolsActive,
                           isSymbols2Active,
                           pendingDeadkey>>
            /\ emitted' = <<>>
            /\ last' = IF found = <<>> THEN OtherStep("keyup")
                       ELSE [KeyStep("keyup", found[1]) EXCEPT !.output = Null]

(***************************************************************************)
(* Owners of the active layout                                             *)
(***************************************************************************)
\* KeyboardViewer.handleGitHubLayoutLoaded: store and select the layout,
\* then clearState, all in one event handler
handleGitHubLayoutLoaded(l) ==
    /\ layout' = l
    /\ clearState

\* KeyboardViewer.parseAndLoadYaml: on success replace the yaml layout and
\* clearState; empty text, a parse error or no platform changes nothing
parseAndLoadYaml(l, ok) ==
    IF ok
    THEN /\ layout' = l
         /\ clearState
    ELSE /\ UNCHANGED <<layout, modvars, pendingDeadkey, pressedKeyId>>
         /\ emitted' = <<>>

\* KeyboardEmbed.fetchLayout after its await: keyboardLayout.value = data.layout
fetchLayoutResolved(l) ==
    /\ layout' = l
    /\ UNCHANGED <<modvars, pendingDeadkey, pressedKeyId>>
    /\ emitted' = <<>>

(***************************************************************************)
(* The transformer (src/unnamed/part_006): from a parsed source definition *)
(* to a layout.  A source definition is a map from platform names to       *)
(* platform data; platform data maps variant names to variant data, whose  *)
(* optional "layers" maps layer names to layer strings.  A thrown Error is *)
(* the record [kind |-> "error", message |-> ...]; a layout is abstracted  *)
(* to the default layer string it was built from and its tags.             *)
(***************************************************************************)
Empty == [n \in {} |-> ""]

Has(obj, field) == field \in DOMAIN obj

Thrown(message) == [kind |-> "error", message |-> message]

PlatformNotFound(p) == "Platform \"" \o p \o "\" not found in layout"
NoLayersFound(p, v) ==
    "No layers found for platform \"" \o p \o "\" variant \"" \o v \o "\""
NoDefaultLayerFound == "No default layer found for mobile layout"
NoPlatformsFound == "No platforms found in layout file"

isMobilePlatform(p) == p \in {"iOS", "android"}

\* variant: an absent or unknown mobile variant falls back to primary
extractPlatformDataFallsBack(data, p, v) ==
    IF ~Has(data, p) THEN Thrown(PlatformNotFound(p))
    ELSE LET platformData == data[p]
             name == IF v # "primary" /\ isMobilePlatform(p)
                        /\ Has(platformData, v)
                     THEN v ELSE "primary"
             layers == IF Has(platformData, name)
                          /\ Has(platformData[name], "layers")
                       THEN <<platformData[name].layers>> ELSE <<>>
         IN  IF layers = <<>> \/ ~Has(layers[1], "default")
                \/ layers[1]["default"] = ""
             THEN Thrown(NoLayersFound(p, v))
             ELSE [kind |-> "ok", layers |-> layers[1]]

\* variant: a platform without a default layer yields an empty layer bundle
extractPlatformDataLenient(data, p, v) ==
    IF ~Has(data, p) THEN Thrown(PlatformNotFound(p))
    ELSE LET platformData == data[p]
             name == IF v # "primary" /\ isMobilePlatform(p)
                     THEN v ELSE "primary"
             layers == IF Has(platformData, name)
                          /\ Has(platformData[name], "layers")
                       THEN <<platformData[name].layers>> ELSE <<>>
         IN  IF layers = <<>> \/ ~Has(layers[1], "default")
                \/ layers[1]["default"] = ""
             THEN [kind |-> "ok", layers |-> ("default" :> "")]
             ELSE [kind |-> "ok", layers |-> layers[1]]

\* variant: a missing platform is reported like a missing layer
extractPlatformDataOneError(data, p, v) ==
    IF ~Has(data, p) THEN Thrown(NoLayersFound(p, v))
    ELSE LET platformData == data[p]
             name == IF v # "primary" /\ isMobilePlatform(p)
                     THEN v ELSE "primary"
             layers == IF Has(platformData, name)
                          /\ Has(platformData[name], "layers")
                       THEN <<platformData[name].layers>> ELSE <<>>
         IN  IF layers = <<>> \/ ~Has(layers[1], "default")
                \/ layers[1]["default"] = ""
             THEN Thrown(NoLayersFound(p, v))
             ELSE [kind |-> "ok", layers |-> layers[1]]

\* extractPlatformData: the layers of the platform, of the variant for a
\* mobile platform asked for another variant than primary; layers is a
\* sequence of length one, empty for undefined
extractPlatformData(data, p, v) ==
    IF ~Has(data, p) THEN Thrown(PlatformNotFound(p))
    ELSE LET platformData == data[p]
             name == IF v # "primary" /\ isMobilePlatform(p)
                     THEN v ELSE "primary"
             layers == IF Has(platformData, name)
                          /\ Has(platformData[name], "layers")
                       THEN <<platformData[name].layers>> ELSE <<>>
         IN  IF layers = <<>> \/ ~Has(layers[1], "default")
                \/ layers[1]["default"] = ""
             THEN Thrown(NoLayersFound(p, v))
             ELSE [kind |-> "ok", layers |-> layers[1]]

\* transformMobileLayout: rows from the default layer of the variant
transformMobileLayout(data, p, v) ==
    LET extracted == extractPlatformData(data, p, v)
    IN  IF extracted.kind = "error" THEN extracted
        ELSE IF extracted.layers["default"] = ""
             THEN Thrown(NoDefaultLayerFound)
        ELSE [kind |-> "layout",
              id |-> "custom-yaml-" \o p \o "-" \o v,
              rows |-> extracted.layers["default"],
              isMobile |-> TRUE, platform |-> p, variant |-> v]

\* transformKbdgenToLayout: mobile platforms take the variant, desktop
\* platforms always take primary
transformKbdgenToLayout(data, p, v) ==
    IF isMobilePlatform(p) THEN transformMobileLayout(data, p, v)
    ELSE LET extracted == extractPlatformData(data, p, "primary")
         IN  IF extracted.kind = "error" THEN extracted
             ELSE [kind |-> "layout",
                   id |-> "custom-yaml-" \o p,
                   rows |-> extracted.layers["default"],
                   isMobile |-> FALSE, platform |-> p, variant |-> "primary"]

ViewerPlatforms == <<"macOS", "windows", "chromeOS", "android", "iOS">>

\* variant: a source without any platform is answered with the first one
getAvailablePlatformsNeverEmpty(data) ==
    LET found == SelectSeq(ViewerPlatforms, LAMBDA p : Has(data, p))
    IN  IF found = <<>> THEN <<"macOS">> ELSE found

\* getAvailablePlatforms: the platforms of the viewer that the source has
getAvailablePlatforms(data) ==
    SelectSeq(ViewerPlatforms, LAMBDA p : Has(data, p))

\* GET of the layout route after the source was fetched and parsed;
\* calls counts the transformations the handler ran
RouteGet(data, p) ==
    LET availablePlatforms == getAvailablePlatforms(data)
        selectedPlatform ==
            IF \E i \in DOMAIN availablePlatforms : availablePlatforms[i] = p
            THEN p ELSE availablePlatforms[1]
        transformed == transformKbdgenToLayout(data, selectedPlatform, "primary")
    IN  IF Len(availablePlatforms) = 0
        THEN [status |-> 400, error |-> NoPlatformsFound, calls |-> 0]
        ELSE IF transformed.kind = "error"
        THEN [status |-> 500, error |-> transformed.message, calls |-> 1]
        ELSE [status |-> 200, layout |-> transformed,
              selectedPlatform |-> selectedPlatform, calls |-> 1]

\* source definitions: each platform absent or present with its variants
\* absent, without layers, without default layer, with an empty or a
\* non-empty default layer
With(name, options) == {Empty} \cup {(name :> o) : o \in options}

Sources ==
    LET VariantOptions(text) ==
            {Empty, [layers |-> ("shift" :> "S")],
             [layers |-> ("default" :> "")], [layers |-> ("default" :> text)]}
        MacOSOptions == With("primary", VariantOptions("m"))
        IOSOptions ==
            {a @@ b :
                a \in With("primary", VariantOptions("p")),
                b \in With("iPad-9in",
                           {Empty, [layers |-> ("default" :> "i")]})}
        AndroidOptions ==
            {a @@ b :
                a \in With("primary", {[layers |-> ("default" :> "a")]}),
                b \in With("tablet-600", {[layers |-> ("default" :> "t")]})}
        ChromeOptions == {[primary |-> [layers |-> ("default" :> "c")]]}
    IN  {m @@ i @@ a @@ c : m \in With("macOS", MacOSOptions),
                            i \in With("iOS", IOSOptions),
                            a \in With("android", AndroidOptions),
                            c \in With("chrome", ChromeOptions)}

RequestVariants == {"primary", "iPad-9in", "iPad-12in", "tablet-600"}

InitTxIdle ==
    /\ kbdgenData = Empty
    /\ platform = "macOS"
    /\ variant = "primary"
    /\ txResult = [fn |-> "none"]

(***************************************************************************)
(* Keys and deadkeys of a transformed layout (src/unnamed/part_006).  A    *)
(* layer string is a string; String.prototype.trim and split are spelled   *)
(* out on it.  Rows, columns and the indices inside key ids count from 0   *)
(* in the code and in the ids, sequences here count from 1.  A key is its  *)
(* id and its layers; width, label and type are left out.                  *)
(***************************************************************************)
Whitespace == {" ", "\n", "\t"}

At(s, i) == SubSeq(s, i, i)

\* first index from i on whose character is in chars, Len(s) + 1 if none
RECURSIVE Find(_, _, _)
Find(s, i, chars) ==
    IF i > Len(s) THEN Len(s) + 1
    ELSE IF At(s, i) \in chars THEN i
    ELSE Find(s, i + 1, chars)

\* first index from i on whose character is not in chars
RECURSIVE Skip(_, _, _)
Skip(s, i, chars) ==
    IF i > Len(s) THEN Len(s) + 1
    ELSE IF At(s, i) \notin chars THEN i
    ELSE Skip(s, i + 1, chars)

RECURSIVE trimEnd(_)
trimEnd(s) ==
    IF Len(s) = 0 THEN s
    ELSE IF At(s, Len(s)) \in Whitespace THEN trimEnd(SubSeq(s, 1, Len(s) - 1))
    ELSE s

\* String.prototype.trim
trim(s) ==
    LET i == Skip(s, 1, Whitespace)
    IN  trimEnd(SubSeq(s, i, Len(s)))

\* s.split("\n")
RECURSIVE splitLines(_)
splitLines(s) ==
    LET i == Find(s, 1, {"\n"})
    IN  IF i > Len(s) THEN <<s>>
        ELSE <<SubSeq(s, 1, i - 1)>> \o splitLines(SubSeq(s, i + 1, Len(s)))

\* s.split(/\s+/)
RECURSIVE splitWhitespace(_)
splitWhitespace(s) ==
    LET i == Find(s, 1, Whitespace)
        j == Skip(s, i, Whitespace)
    IN  IF i > Len(s) THEN <<s>>
        ELSE <<SubSeq(s, 1, i - 1)>> \o splitWhitespace(SubSeq(s, j, Len(s)))

\* parseLayerString: the grid of tokens of a desktop layer string
parseLayerString(layerString) ==
    LET lines == splitLines(trim(layerString))
    IN  [i \in 1..Len(lines) |-> splitWhitespace(trim(lines[i]))]

\* the match of /\\s\{([^:}]+)(?::([0-9.]+))?\}/ that starts at or after i:
\* the special type in a sequence of length one, empty when nothing matches
RECURSIVE specialKeyMatch(_, _)
specialKeyMatch(s, i) ==
    IF i + 2 > Len(s) THEN <<>>
    ELSE LET e == Find(s, i + 3, {":", "}"})
             d == Skip(s, e + 1, {"0", "1", "2", "3", "4", "5", "6", "7", "8",
                                  "9", "."})
             named == SubSeq(s, i, i + 2) = "\\s{" /\ e > i + 3 /\ e <= Len(s)
         IN  IF named /\ At(s, e) = "}" THEN <<SubSeq(s, i + 3, e - 1)>>
             ELSE IF named /\ d > e + 1 /\ d <= Len(s) /\ At(s, d) = "}"
                  THEN <<SubSeq(s, i + 3, e - 1)>>
             ELSE specialKeyMatch(s, i + 1)

\* parseMobileKey: the parsed key in a sequence of length one, the empty
\* sequence (null) for a spacer
parseMobileKey(keyString) ==
    LET specialKeyMatched == specialKeyMatch(keyString, 1)
    IN  IF specialKeyMatched # <<>>
        THEN (IF specialKeyMatched[1] = "spacer" THEN <<>>
              ELSE <<[char |-> "", specialType |-> specialKeyMatched[1]]>>)
        ELSE <<[char |-> keyString, specialType |-> Null]>>

RECURSIVE Flatten(_)
Flatten(seqs) ==
    IF seqs = <<>> THEN <<>> ELSE Head(seqs) \o Flatten(Tail(seqs))

\* variant: a spacer stays in its row as a key without character
parseMobileLayerStringKeepsSpacers(layerString) ==
    LET lines == splitLines(trim(layerString))
    IN  [i \in 1..Len(lines) |->
            LET keys == splitWhitespace(trim(lines[i]))
            IN  Flatten([k \in 1..Len(keys) |->
                            IF parseMobileKey(keys[k]) = <<>>
                            THEN <<[char |-> "", specialType |-> "spacer"]>>
                            ELSE parseMobileKey(keys[k])])]

\* parseMobileLayerString: rows of parsed keys, spacers filtered out
parseMobileLayerString(layerString) ==
    LET lines == splitLines(trim(layerString))
    IN  [i \in 1..Len(lines) |->
            LET keys == splitWhitespace(trim(lines[i]))
            IN  Flatten([k \in 1..Len(keys) |-> parseMobileKey(keys[k])])]

\* a few positions of each row of ISO_KEY_POSITIONS
ISO_KEY_POSITIONS ==
    [row1 |-> <<"Digit1", "Equal">>, row2 |-> <<"KeyQ", "KeyW">>,
     row3 |-> <<"KeyA", "KeyS">>, row4 |-> <<"IntlBackslash", "Slash">>]

SPECIAL_KEYS ==
    [backspace |-> Special("Backspace", BackspaceChar),
     tab |-> Special("Tab", TabChar),
     enter |-> Special("Enter", Newline),
     capsLock |-> Special("CapsLock", ""),
     shiftLeft |-> Special("ShiftLeft", ""),
     shiftRight |-> Special("ShiftRight", ""),
     controlLeft |-> Special("ControlLeft", ""),
     metaLeft |-> Special("MetaLeft", ""),
     altLeft |-> Special("AltLeft", ""),
     space |-> Special("Space", " "),
     altRight |-> Special("AltRight", ""),
     metaRight |-> Special("MetaRight", ""),
     controlRight |-> Special("ControlRight", "")]

\* the layers createKeyboardRow reads besides default
RowLayerNames == DesktopLayerNames \ {"default"}

\* is there a cell (row, col) in the grid
HasCell(grid, row, col) ==
    row \in DOMAIN grid /\ col \in DOMAIN grid[row]

\* variant: a layer whose cell is missing or empty is entered as empty
createKeyboardRowKeepsEmpty(keyPositions, layersData, rowIndex) ==
    [keyIndex \in DOMAIN keyPositions |->
        K(keyPositions[keyIndex],
          [name \in {"default"} \cup (RowLayerNames \cap DOMAIN layersData) |->
              IF HasCell(layersData[name], rowIndex, keyIndex)
              THEN layersData[name][rowIndex][keyIndex] ELSE ""])]

\* createKeyboardRow: one key per position, with the cell of every layer
createKeyboardRow(keyPositions, layersData, rowIndex) ==
    [keyIndex \in DOMAIN keyPositions |->
        LET filled(name) ==
                /\ name \in DOMAIN layersData
                /\ HasCell(layersData[name], rowIndex, keyIndex)
                /\ layersData[name][rowIndex][keyIndex] # ""
        IN  K(keyPositions[keyIndex],
              [name \in {"default"}
                        \cup {n \in RowLayerNames : filled(n)} |->
                  IF filled(name) THEN layersData[name][rowIndex][keyIndex]
                  ELSE ""])]

\* the layers of a bundle that have a non-empty layer string
ParsedNames(layers) == {n \in DOMAIN layers : layers[n] # ""}

\* variant: the four rows of letters are built whatever lines the default
\* layer has
desktopRowsAlwaysFive(layers) ==
    LET parsedLayers ==
            [n \in ParsedNames(layers) |-> parseLayerString(layers[n])]
        row(positions, i) == createKeyboardRow(positions, parsedLayers, i)
    IN  << row(ISO_KEY_POSITIONS.row1, 1) \o <<SPECIAL_KEYS.backspace>>,
           <<SPECIAL_KEYS.tab>> \o row(ISO_KEY_POSITIONS.row2, 2)
               \o <<SPECIAL_KEYS.enter>>,
           <<SPECIAL_KEYS.capsLock>> \o row(ISO_KEY_POSITIONS.row3, 3),
           <<SPECIAL_KEYS.shiftLeft>> \o row(ISO_KEY_POSITIONS.row4, 4)
               \o <<SPECIAL_KEYS.shiftRight>>,
           <<SPECIAL_KEYS.controlLeft, SPECIAL_KEYS.metaLeft,
             SPECIAL_KEYS.altLeft, SPECIAL_KEYS.space, SPECIAL_KEYS.altRight,
             SPECIAL_KEYS.metaRight, SPECIAL_KEYS.controlRight>> >>

\* rows of transformKbdgenToLayout: a row of letters for every line of the
\* default layer, up to four, and the bottom row
desktopRows(layers) ==
    LET parsedLayers ==
            [n \in ParsedNames(layers) |-> parseLayerString(layers[n])]
        has(i) == "default" \in DOMAIN parsedLayers
                      /\ i \in DOMAIN parsedLayers["default"]
    IN  (IF has(1)
         THEN << createKeyboardRow(ISO_KEY_POSITIONS.row1, parsedLayers, 1)
                 \o <<SPECIAL_KEYS.backspace>> >>
         ELSE <<>>)
        \o (IF has(2)
            THEN << <<SPECIAL_KEYS.tab>>
                    \o createKeyboardRow(ISO_KEY_POSITIONS.row2, parsedLayers, 2)
                    \o <<SPECIAL_KEYS.enter>> >>
            ELSE <<>>)
        \o (IF has(3)
            THEN << <<SPECIAL_KEYS.capsLock>>
                    \o createKeyboardRow(ISO_KEY_POSITIONS.row3, parsedLayers, 3) >>
            ELSE <<>>)
        \o (IF has(4)
            THEN << <<SPECIAL_KEYS.shiftLeft>>
                    \o createKeyboardRow(ISO_KEY_POSITIONS.row4, parsedLayers, 4)
                    \o <<SPECIAL_KEYS.shiftRight>> >>
            ELSE <<>>)
        \o << <<SPECIAL_KEYS.controlLeft, SPECIAL_KEYS.metaLeft,
                SPECIAL_KEYS.altLeft, SPECIAL_KEYS.space, SPECIAL_KEYS.altRight,
                SPECIAL_KEYS.metaRight, SPECIAL_KEYS.controlRight>> >>

\* createMobileKey: a key of the special-key catalogue for a special token,
\* a key with the character of every layer at the same place otherwise
createMobileKey(parsedKey, rowIndex, keyIndex, allLayers) ==
    LET \* an index as the template literal writes it
        IndexText(i) ==
            IF i = 0 THEN "0" ELSE IF i = 1 THEN "1" ELSE IF i = 2 THEN "2"
            ELSE IF i = 3 THEN "3" ELSE IF i = 4 THEN "4" ELSE "5"
        \* the layers of the layerMap besides default
        MobileLayerNames ==
            {"shift", "alt", "alt+shift", "symbols-1", "symbols-2"}
        keyId == "mobile-r" \o IndexText(rowIndex - 1) \o "-k"
                 \o IndexText(keyIndex - 1)
        filled(name) ==
            /\ name \in DOMAIN allLayers
            /\ HasCell(allLayers[name], rowIndex, keyIndex)
            /\ allLayers[name][rowIndex][keyIndex].char # ""
        specialType == parsedKey.specialType
    IN  IF specialType # Null
        THEN (IF specialType = "shift" THEN Special("ShiftLeft", "")
              ELSE IF specialType = "backspace"
                   THEN Special("Backspace", BackspaceChar)
              ELSE IF specialType \in {"return", "enter"}
                   THEN Special("Enter", Newline)
              ELSE IF specialType = "symbols" THEN Special("MobileSymbols", "")
              ELSE IF specialType = "space" THEN Special("Space", " ")
              ELSE Special(keyId, ""))
        ELSE K(keyId,
               [name \in {"default"}
                         \cup {n \in MobileLayerNames : filled(n)} |->
                   IF name = "default" THEN parsedKey.char
                   ELSE allLayers[name][rowIndex][keyIndex].char])

\* rows of transformMobileLayout: a row for every line of the default layer
\* and the synthetic bottom row
mobileRows(layers, p) ==
    LET parsedLayers ==
            [n \in ParsedNames(layers) |-> parseMobileLayerString(layers[n])]
        defaultLayer == parsedLayers["default"]
    IN  [rowIndex \in DOMAIN defaultLayer |->
            [keyIndex \in DOMAIN defaultLayer[rowIndex] |->
                createMobileKey(defaultLayer[rowIndex][keyIndex], rowIndex,
                                keyIndex, parsedLayers)]]
        \o << (IF p = "iOS" THEN <<Special("MobileSymbols", "")>> ELSE <<>>)
              \o <<Special("Space", " "), Special("Enter", Newline)>> >>

\* the table of an object's optional transforms field
TransformsOf(obj) == IF Has(obj, "transforms") THEN obj.transforms ELSE Empty

\* variant: a top-level entry wins over the platform's entry
allTransformsTopLevelWins(data, p) ==
    TransformsOf(data) @@ TransformsOf(data[p])

\* allTransforms of extractPlatformData: the top-level table spread first,
\* the platform's table spread over it
allTransforms(data, p) ==
    TransformsOf(data[p]) @@ TransformsOf(data)

\* the layout transformKbdgenToLayout returns, with its keys and deadkeys
transformKeys(data, p, v) ==
    LET extracted == extractPlatformData(data, p,
                                         IF isMobilePlatform(p) THEN v
                                         ELSE "primary")
    IN  IF extracted.kind = "error" THEN extracted
        ELSE [kind |-> "layout",
              rows |-> IF isMobilePlatform(p)
                       THEN mobileRows(extracted.layers, p)
                       ELSE desktopRows(extracted.layers),
              deadkeys |-> allTransforms(data, p),
              isMobile |-> isMobilePlatform(p)]

(***************************************************************************)
(* Initial state and steps                                                 *)
(***************************************************************************)
InitEngine ==
    /\ isShiftActive = FALSE /\ shiftClickMode = FALSE
    /\ isCapsLockActive = FALSE
    /\ isAltActive = FALSE /\ altClickMode = FALSE
    /\ isCmdActive = FALSE /\ cmdClickMode = FALSE
    /\ isCtrlActive = FALSE /\ ctrlClickMode = FALSE
    /\ isSymbolsActive = FALSE /\ isSymbols2Active = FALSE
    /\ pendingDeadkey = Null
    /\ pressedKeyId = Null
    /\ emitted = <<>>
    /\ last = OtherStep("init")

DEFAULT_PLATFORM == "macOS"
DEFAULT_VARIANT == "primary"

\* the selector after its mount: nothing selected, both effects have run and
\* returned at once, nothing fetched
InitSelector ==
    /\ selector = [selectedRepo |-> "", selectedLayout |-> "",
                   selectedPlatform |-> DEFAULT_PLATFORM,
                   selectedVariant |-> DEFAULT_VARIANT,
                   layouts |-> <<>>, platforms |-> <<>>, variants |-> <<>>,
                   loading |-> FALSE, error |-> Null,
                   args |-> <<"", <<"", "", DEFAULT_PLATFORM, DEFAULT_VARIANT>> >>,
                   pendingEffects |-> {},
                   fetches |-> {}, issued |-> 0]
    /\ delivered = {}

\* nothing resolved yet; the page was requested without the parameter
InitPageIdle ==
    /\ resolved = {}
    /\ searchParam = Null
    /\ InitSelector

InitFnIdle ==
    /\ fnKey = [id |-> "none"]
    /\ fnLayer = "default"
    /\ fnOut = [fn |-> "none", out |-> Null]
    /\ InitTxIdle
    /\ InitPageIdle

\* the viewer starts on the first of the layouts it was given
Init ==
    /\ layout \in LayoutIds
    /\ inflight = {}
    /\ InitEngine
    /\ InitFnIdle

\* the embed starts without a layout and with the request of its mount
\* effect pending
InitEmbed ==
    /\ layout = NoLayout
    /\ \E l \in LayoutIds : inflight = {l}
    /\ InitEngine
    /\ InitFnIdle

VirtualClick ==
    /\ layout # NoLayout
    /\ \E key \in KeysOf(layout) :
          /\ handleKeyClick(key)
          /\ last' = KeyStep("click", key)
    /\ UNCHANGED <<layout, inflight, pressedKeyId, fnvars>>

KeyDownOf(codes) ==
    /\ layout # NoLayout
    /\ \E code \in codes, editable \in BOOLEAN : handleKeyDown(code, editable)
    /\ UNCHANGED <<layout, inflight, fnvars>>

KeyUpOf(codes) ==
    /\ layout # NoLayout
    /\ \E code \in codes, editable \in BOOLEAN : handleKeyUp(code, editable)
    /\ UNCHANGED <<layout, inflight, fnvars>>

PhysicalKeyDown == KeyDownOf(Codes)
PhysicalKeyUp == KeyUpOf(Codes)
EmbedKeyDown == KeyDownOf(EmbedCodes)
EmbedKeyUp == KeyUpOf(EmbedCodes)

ClearState ==
    /\ clearState
    /\ last' = [OtherStep("clear") EXCEPT !.layer = activeLayer]
    /\ UNCHANGED <<layout, inflight, fnvars>>

GitHubLayoutLoaded ==
    /\ \E l \in LayoutIds : handleGitHubLayoutLoaded(l)
    /\ last' = OtherStep("load")
    /\ UNCHANGED <<inflight, fnvars>>

YamlChanged ==
    /\ \E l \in LayoutIds, ok \in BOOLEAN :
          /\ parseAndLoadYaml(l, ok)
          /\ last' = OtherStep(IF ok THEN "load" ELSE "ignored")
    /\ UNCHANGED <<inflight, fnvars>>

\* variant: starting a request takes the current layout away
EmbedPropsChangedDropsLayout ==
    /\ \E l \in LayoutIds :
          /\ Cardinality(inflight \cup {l}) <= MaxInflight
          /\ inflight' = inflight \cup {l}
    /\ layout' = NoLayout
    /\ emitted' = <<>>
    /\ last' = OtherStep("fetch")
    /\ UNCHANGED <<modvars, pendingDeadkey, pressedKeyId, fnvars>>

\* the embed is rendered with other kbd/layout/platform/variant props: the
\* effect runs again and starts a request
EmbedPropsChanged ==
    /\ \E l \in LayoutIds :
          /\ Cardinality(inflight \cup {l}) <= MaxInflight
          /\ inflight' = inflight \cup {l}
    /\ emitted' = <<>>
    /\ last' = OtherStep("fetch")
    /\ UNCHANGED <<layout, modvars, pendingDeadkey, pressedKeyId, fnvars>>

EmbedFetchResolved ==
    /\ \E l \in inflight :
          /\ inflight' = inflight \ {l}
          /\ fetchLayoutResolved(l)
    /\ last' = OtherStep("load")
    /\ UNCHANGED fnvars

EmbedFetchFailed ==
    /\ \E l \in inflight : inflight' = inflight \ {l}
    /\ emitted' = <<>>
    /\ last' = OtherStep("ignored")
    /\ UNCHANGED <<layout, modvars, pendingDeadkey, pressedKeyId, fnvars>>

\* the engine hosted by the viewer island
Next ==
    \/ VirtualClick
    \/ PhysicalKeyDown
    \/ PhysicalKeyUp
    \/ ClearState
    \/ GitHubLayoutLoaded
    \/ YamlChanged

Spec == Init /\ [][Next]_vars

(***************************************************************************)
(* The output lookup as a function of its arguments: keys whose layers     *)
(* are absent, empty or set, looked up on the layers in FnQueryLayers.     *)
(***************************************************************************)
FnQueryLayers == {"default", "shift", "caps", "symbols-1", "symbols-2"}

\* a key without layers, and keys whose layers map has the names in D,
\* empty where e says so
FnKeys ==
    LET FnNames == {"default", "shift", "symbols-1", "symbols-2"}
        FnLayers(D, e) == [n \in D |-> IF e[n] THEN "" ELSE "v-" \o n]
    IN  {[id |-> "k"]} \cup
        {K("k", FnLayers(D, e)) : <<D, e>> \in
            UNION {{<<D2, e2>> : e2 \in [D2 -> BOOLEAN]} :
                       D2 \in SUBSET FnNames}}

InitFn ==
    /\ layout = "desktop"
    /\ inflight = {}
    /\ InitEngine
    /\ fnKey \in FnKeys
    /\ fnLayer \in FnQueryLayers
    /\ fnOut = [fn |-> "none", out |-> Null]
    /\ InitTxIdle
    /\ InitPageIdle

ApplyGetKeyOutput ==
    /\ fnOut.fn = "none"
    /\ fnOut' = [fn |-> "getKeyOutput", out |-> getKeyOutput(fnKey, fnLayer)]
    /\ UNCHANGED <<layout, inflight, modvars, pendingDeadkey, pressedKeyId,
                   emitted, last, fnKey, fnLayer, txvars, pagevars>>

ApplyGetOutputChar ==
    /\ fnOut.fn = "none"
    /\ "layers" \in DOMAIN fnKey
    /\ fnOut' = [fn |-> "getOutputChar", out |-> getOutputChar(fnKey, fnLayer)]
    /\ UNCHANGED <<layout, inflight, modvars, pendingDeadkey, pressedKeyId,
                   emitted, last, fnKey, fnLayer, txvars, pagevars>>

NextFn ==
    \/ ApplyGetKeyOutput
    \/ ApplyGetOutputChar

SpecFn == InitFn /\ [][NextFn]_vars

(***************************************************************************)
(* The transformer and the layout route as functions of a source           *)
(* definition and a request.                                               *)
(***************************************************************************)
InitTransform ==
    /\ layout = "desktop"
    /\ inflight = {}
    /\ InitEngine
    /\ fnKey = [id |-> "none"]
    /\ fnLayer = "default"
    /\ fnOut = [fn |-> "none", out |-> Null]
    /\ kbdgenData \in Sources
    /\ platform \in {"macOS", "windows", "iOS", "android", "chrome"}
    /\ variant \in RequestVariants
    /\ txResult = [fn |-> "none"]
    /\ InitPageIdle

TxFrame ==
    UNCHANGED <<layout, inflight, modvars, pendingDeadkey, pressedKeyId,
                emitted, last, fnKey, fnLayer, fnOut, kbdgenData, platform,
                variant, pagevars>>

ApplyTransform ==
    /\ txResult.fn = "none"
    /\ txResult' = [fn |-> "transformKbdgenToLayout",
                    out |-> transformKbdgenToLayout(kbdgenData, platform,
                                                    variant)]
    /\ TxFrame

ApplyGetAvailablePlatforms ==
    /\ txResult.fn = "none"
    /\ txResult' = [fn |-> "getAvailablePlatforms",
                    out |-> [kind |-> "returned",
                             value |-> getAvailablePlatforms(kbdgenData)]]
    /\ TxFrame

ApplyRouteGet ==
    /\ txResult.fn = "none"
    /\ txResult' = [fn |-> "GET", out |-> RouteGet(kbdgenData, platform)]
    /\ TxFrame

NextTransform ==
    \/ ApplyTransform
    \/ ApplyGetAvailablePlatforms
    \/ ApplyRouteGet

SpecTransform == InitTransform /\ [][NextTransform]_vars

(***************************************************************************)
(* The keys and deadkeys of a layout as a function of the source: layer    *)
(* strings with full and short lines, a blank line, runs of blanks, mobile *)
(* special keys and spacers, and transform tables at the top level and in  *)
(* the platform.                                                           *)
(***************************************************************************)
DesktopBundles ==
    LET DesktopDefaults ==
            {"1 =\nq w\na s\n< /", "1\nq w", " 1  =\n\nq w\n",
             "1 = 2\nq\na s\n< /\n5"}
        DesktopShifts == {"! +\nQ W\nA S\n> ?", "!"}
        DesktopCaps == {"1 =\nQ W"}
    IN  {("default" :> d) @@ s @@ c : d \in DesktopDefaults,
                                      s \in With("shift", DesktopShifts),
                                      c \in With("caps", DesktopCaps)}

MobileBundles ==
    LET MobileDefaults ==
            {"q w\n\\s{shift} a \\s{backspace}",
             "\\s{spacer:0.5} q w\n\\s{shift} \\s{spacer} a \\s{backspace}",
             "q w \\s{return}\n\\s{shift} a \\s{shift}",
             "q \\s{spacer} w\n\\s{globe} a"}
        MobileShifts ==
            {"Q W\n\\s{shift} A \\s{backspace}",
             "\\s{spacer} Q W\n\\s{shift} A \\s{spacer:0.25} \\s{backspace}",
             "Q"}
        MobileSymbolPages == {"1 \\s{spacer} 2\n\\s{shift} 3"}
    IN  {("default" :> d) @@ s @@ y :
            d \in MobileDefaults,
            s \in With("shift", MobileShifts),
            y \in With("symbols-1", MobileSymbolPages)}

PlatformSources(p, bundles) ==
    LET TopLevelTransforms ==
            {("^" :> ("a" :> ACirc)),
             ("^" :> ("a" :> ACirc)) @@ ("~" :> ("a" :> ATilde))}
        PlatformTransforms ==
            {("^" :> ("A" :> UpACirc)), ("~" :> ("n" :> "n-tilde"))}
    IN  {top @@ (p :> ([primary |-> [layers |-> b]] @@ own)) :
            top \in With("transforms", TopLevelTransforms),
            b \in bundles,
            own \in With("transforms", PlatformTransforms)}

KeySources ==
    PlatformSources("macOS", DesktopBundles)
    \cup PlatformSources("iOS", MobileBundles)
    \cup PlatformSources("android", MobileBundles)

InitKeys ==
    /\ layout = "desktop"
    /\ inflight = {}
    /\ InitEngine
    /\ fnKey = [id |-> "none"]
    /\ fnLayer = "default"
    /\ fnOut = [fn |-> "none", out |-> Null]
    /\ kbdgenData \in KeySources
    /\ platform \in {"macOS", "iOS", "android"}
    /\ variant = "primary"
    /\ txResult = [fn |-> "none"]
    /\ InitPageIdle

ApplyTransformKeys ==
    /\ txResult.fn = "none"
    /\ txResult' = [fn |-> "transformKeys",
                    out |-> transformKeys(kbdgenData, platform, variant)]
    /\ TxFrame

NextKeys == ApplyTransformKeys

SpecKeys == InitKeys /\ [][NextKeys]_vars

(***************************************************************************)
(* The hook used through its interface while options.layout is null: the  *)
(* effect that registers the key listeners returns early, so a key event   *)
(* of the window reaches no handler; handleKeyClick is returned all the    *)
(* same and takes the key it is given.                                     *)
(***************************************************************************)
InitHook ==
    /\ layout = NoLayout
    /\ inflight = {}
    /\ InitEngine
    /\ InitFnIdle

HookKeyClick ==
    /\ \E key \in UNION {KeysOf(l) : l \in LayoutIds} :
          /\ handleKeyClick(key)
          /\ last' = KeyStep("click", key)
    /\ UNCHANGED <<layout, inflight, pressedKeyId, fnvars>>

\* a keydown of the window while no listener is registered
WindowKeyDownUnheard ==
    /\ layout = NoLayout
    /\ emitted' = <<>>
    /\ last' = OtherStep("keydown")
    /\ UNCHANGED <<layout, inflight, modvars, pendingDeadkey, pressedKeyId,
                   fnvars>>

\* a keyup of the window while no listener is registered
WindowKeyUpUnheard ==
    /\ layout = NoLayout
    /\ emitted' = <<>>
    /\ last' = OtherStep("keyup")
    /\ UNCHANGED <<layout, inflight, modvars, pendingDeadkey, pressedKeyId,
                   fnvars>>

NextHook ==
    \/ HookKeyClick
    \/ WindowKeyDownUnheard
    \/ WindowKeyUpUnheard

SpecHook == InitHook /\ [][NextHook]_vars

(***************************************************************************)
(* The layer resolver over every ModifierState: the signals are stepped    *)
(* through all their values, in a fixed order, and the layer that          *)
(* activeLayer resolves in each of them is recorded.  A click-latch is     *)
(* only ever set together with its flag.                                   *)
(***************************************************************************)
ModifierStates ==
    {s \in [shift : BOOLEAN, shiftClick : BOOLEAN, caps : BOOLEAN,
            alt : BOOLEAN, altClick : BOOLEAN, cmd : BOOLEAN,
            cmdClick : BOOLEAN, ctrl : BOOLEAN, ctrlClick : BOOLEAN,
            symbols : BOOLEAN, symbols2 : BOOLEAN] :
        /\ s.shiftClick => s.shift
        /\ s.altClick => s.alt
        /\ s.cmdClick => s.cmd
        /\ s.ctrlClick => s.ctrl}

Bit(b) == IF b THEN 1 ELSE 0

\* the place of a state in the order the signals are stepped through
Rank(s) ==
    Bit(s.shiftClick) + 2 * Bit(s.altClick) + 4 * Bit(s.cmdClick)
    + 8 * Bit(s.ctrlClick) + 16 * Bit(s.symbols2) + 32 * Bit(s.symbols)
    + 64 * Bit(s.shift) + 128 * Bit(s.caps) + 256 * Bit(s.alt)
    + 512 * Bit(s.cmd) + 1024 * Bit(s.ctrl)

LastRank == 2047
Flag(r, i) == (r \div (2 ^ i)) % 2 = 1
StateOf(r) ==
    [shiftClick |-> Flag(r, 0), altClick |-> Flag(r, 1),
     cmdClick |-> Flag(r, 2), ctrlClick |-> Flag(r, 3),
     symbols2 |-> Flag(r, 4), symbols |-> Flag(r, 5), shift |-> Flag(r, 6),
     caps |-> Flag(r, 7), alt |-> Flag(r, 8), cmd |-> Flag(r, 9),
     ctrl |-> Flag(r, 10)]

signals ==
    [shift |-> isShiftActive, shiftClick |-> shiftClickMode,
     caps |-> isCapsLockActive, alt |-> isAltActive, altClick |-> altClickMode,
     cmd |-> isCmdActive, cmdClick |-> cmdClickMode, ctrl |-> isCtrlActive,
     ctrlClick |-> ctrlClickMode, symbols |-> isSymbolsActive,
     symbols2 |-> isSymbols2Active]

\* the place of the next ModifierState in the order, the first one after
\* the last
RECURSIVE Successor(_)
Successor(r) ==
    LET n == IF r = LastRank THEN 0 ELSE r + 1
    IN  IF StateOf(n) \in ModifierStates THEN n ELSE Successor(n)

InitLayer ==
    /\ layout = "desktop"
    /\ inflight = {}
    /\ InitEngine
    /\ InitFnIdle

\* reads activeLayer, then sets the signals to the next ModifierState
ResolveLayer ==
    /\ resolved' = resolved \cup
                       {[modifiers |-> modifiers, symbols |-> isSymbolsActive,
                         symbols2 |-> isSymbols2Active, layer |-> activeLayer]}
    /\ LET t == StateOf(Successor(Rank(signals)))
       IN  /\ isShiftActive' = t.shift /\ shiftClickMode' = t.shiftClick
           /\ isCapsLockActive' = t.caps
           /\ isAltActive' = t.alt /\ altClickMode' = t.altClick
           /\ isCmdActive' = t.cmd /\ cmdClickMode' = t.cmdClick
           /\ isCtrlActive' = t.ctrl /\ ctrlClickMode' = t.ctrlClick
           /\ isSymbolsActive' = t.symbols /\ isSymbols2Active' = t.symbols2
    /\ UNCHANGED <<layout, inflight, pendingDeadkey, pressedKeyId, emitted,
                   last, fnKey, fnLayer, fnOut, txvars, searchParam,
                   selector, delivered>>

NextLayer == ResolveLayer

SpecLayer == InitLayer /\ [][NextLayer]_vars

\* the engine hosted by the embed island
NextEmbed ==
    \/ VirtualClick
    \/ EmbedKeyDown
    \/ EmbedKeyUp
    \/ EmbedPropsChanged
    \/ EmbedFetchResolved
    \/ EmbedFetchFailed

SpecEmbed == InitEmbed /\ [][NextEmbed]_vars

(***************************************************************************)
(* The embed page (src/unnamed/part_000): the island is rendered with the  *)
(* interactive prop read from the URL.  The prop only decides whether the  *)
(* rendered keyboard is given handleKeyClick; the hook is set up, and      *)
(* registers its window listeners, either way.                             *)
(***************************************************************************)
\* values of the "interactive" search parameter, Null when it is absent
SearchParams == {Null, "false", "0"}

interactive == searchParam # "false"

InitEmbedPage ==
    /\ layout = NoLayout
    /\ \E l \in LayoutIds : inflight = {l}
    /\ InitEngine
    /\ fnKey = [id |-> "none"]
    /\ fnLayer = "default"
    /\ fnOut = [fn |-> "none", out |-> Null]
    /\ InitTxIdle
    /\ resolved = {}
    /\ searchParam \in SearchParams
    /\ InitSelector

\* onKeyClick is keyboard.handleKeyClick
EmbedClick ==
    /\ interactive
    /\ VirtualClick

\* onKeyClick is undefined: a click on a rendered key has no handler
EmbedClickUnhandled ==
    /\ ~interactive
    /\ layout # NoLayout
    /\ emitted' = <<>>
    /\ last' = OtherStep("click")
    /\ UNCHANGED <<layout, inflight, modvars, pendingDeadkey, pressedKeyId,
                   fnvars>>

NextEmbedPage ==
    \/ EmbedClick
    \/ EmbedClickUnhandled
    \/ EmbedKeyDown
    \/ EmbedKeyUp
    \/ EmbedPropsChanged
    \/ EmbedFetchResolved
    \/ EmbedFetchFailed

SpecEmbedPage == InitEmbedPage /\ [][NextEmbedPage]_vars

TypeOK ==
    /\ layout \in LayoutIds \cup {NoLayout}
    /\ inflight \subseteq LayoutIds
    /\ \A i \in 1..11 : modvars[i] \in BOOLEAN

(***************************************************************************)
(* Vocabulary of the properties                                            *)
(***************************************************************************)
Mods == {"shift", "alt", "cmd", "ctrl"}

FlagOf(m) ==
    CASE m = "shift" -> isShiftActive
      [] m = "alt" -> isAltActive
      [] m = "cmd" -> isCmdActive
      [] m = "ctrl" -> isCtrlActive

LatchOf(m) ==
    CASE m = "shift" -> shiftClickMode
      [] m = "alt" -> altClickMode
      [] m = "cmd" -> cmdClickMode
      [] m = "ctrl" -> ctrlClickMode

KeyIdsOf(m) ==
    CASE m = "shift" -> SHIFT_KEYS
      [] m = "alt" -> ALT_KEYS
      [] m = "cmd" -> CMD_KEYS
      [] m = "ctrl" -> CTRL_KEYS

\* the desktop precedence as an ordered rule table: a rule matches when
\* all the modifiers it names are active
Precedence ==
    << <<"cmd+alt+shift", {"cmd", "alt", "shift"}>>,
       <<"cmd+alt", {"cmd", "alt"}>>,
       <<"cmd+shift", {"cmd", "shift"}>>,
       <<"cmd", {"cmd"}>>,
       <<"alt+shift", {"alt", "shift"}>>,
       <<"alt+caps", {"alt", "caps"}>>,
       <<"alt", {"alt"}>>,
       <<"ctrl+shift", {"ctrl", "shift"}>>,
       <<"ctrl", {"ctrl"}>>,
       <<"caps+shift", {"caps", "shift"}>>,
       <<"caps", {"caps"}>>,
       <<"shift", {"shift"}>>,
       <<"default", {}>> >>

FirstMatch(active) ==
    LET hits == {i \in DOMAIN Precedence : Precedence[i][2] \subseteq active}
    IN  Precedence[CHOOSE i \in hits : \A j \in hits : i <= j][1]

\* the desktop modifiers that are active
ActiveSet ==
    {m \in Mods : FlagOf(m)} \cup (IF isCapsLockActive THEN {"caps"} ELSE {})

\* the layer a key is resolved on when the modifiers in active are on
ExpectedLayer(active) ==
    IF isSymbolsActive
    THEN (IF isSymbols2Active THEN "symbols-2" ELSE "symbols-1")
    ELSE FirstMatch(active)

\* the last step activated a key (virtual click, or physical key-down that
\* reached handleKeyClick)
Activated == last.op \in {"click", "keydown"}

\* the last step committed a character or a special action
Committed ==
    /\ Activated
    /\ \/ last.kind \in {"backspace", "enter", "tab"}
       \/ last.kind = "printable" /\ last.output # ""

\* the last step was a printable key with a non-empty output
PrintableCommitted ==
    Activated /\ last.kind = "printable" /\ last.output # ""

NoLatch ==
    ~shiftClickMode /\ ~altClickMode /\ ~cmdClickMode /\ ~ctrlClickMode

(***************************************************************************)
(* C1  One-shot modifier: a commit made while shift, alt, cmd or ctrl is   *)
(* click-latched is resolved with that modifier active and leaves both the *)
(* flag and the latch false; on the desktop layout a latched Shift makes   *)
(* KeyQ commit "Q" and the layer is back to default afterwards.            *)
(***************************************************************************)
C1_OneShotModifier ==
    [][/\ \A m \in Mods :
            (LatchOf(m) /\ Committed') =>
                /\ FlagOf(m)
                /\ last'.layer = ExpectedLayer(ActiveSet \cup {m})
                /\ ~FlagOf(m)'
                /\ ~LatchOf(m)'
       /\ (/\ Activated' /\ last'.key = "KeyQ"
           /\ shiftClickMode /\ ~isCapsLockActive /\ ~isAltActive
           /\ ~isCmdActive /\ ~isCtrlActive /\ pendingDeadkey = Null) =>
                /\ emitted' = <<TextEvent("Q")>>
                /\ activeLayer' = "default"
                /\ getKeyOutput(KeyQ, activeLayer') = "q"]_vars

C1_Witness ==
    /\ last.op = "click" /\ last.key = "KeyQ" /\ last.layer = "shift"
    /\ emitted = <<TextEvent("Q")>>
    /\ ~isShiftActive /\ ~shiftClickMode

(***************************************************************************)
(* C2  Held modifier: a commit made while shift, alt, cmd or ctrl is held  *)
(* (active without click-latch, as a physical key-down leaves it) is       *)
(* resolved with that modifier active and leaves the flag set; the         *)
(* physical key-up of the modifier then clears the flag.                   *)
(***************************************************************************)
C2_HeldModifier ==
    [][\A m \in Mods :
          /\ (FlagOf(m) /\ ~LatchOf(m) /\ Committed') =>
                /\ FlagOf(m)'
                /\ last'.layer = ExpectedLayer(ActiveSet \cup {m})
          /\ (last'.op = "keydown" /\ last'.key \in KeyIdsOf(m)) =>
                FlagOf(m)' /\ ~LatchOf(m)'
          /\ (~LatchOf(m) /\ last'.op = "keyup" /\ last'.key \in KeyIdsOf(m)) =>
                ~FlagOf(m)']_vars

C2_Witness ==
    /\ Activated /\ last.key = "KeyQ" /\ last.layer = "shift"
    /\ emitted = <<TextEvent("Q")>>
    /\ isShiftActive /\ ~shiftClickMode

(***************************************************************************)
(* C3  Deadkey composition: a printable key with non-empty output c while  *)
(* deadkey d is pending emits exactly one text append, the table entry     *)
(* for (d, c) if there is one and d followed by c otherwise, and the       *)
(* pending deadkey is null afterwards.                                     *)
(***************************************************************************)
deadkeyTable == Layouts[layout].deadkeys

Composed(d, c) ==
    IF d \in DOMAIN deadkeyTable /\ c \in DOMAIN deadkeyTable[d]
    THEN deadkeyTable[d][c]
    ELSE d \o c

C3_DeadkeyComposition ==
    [][(pendingDeadkey # Null /\ PrintableCommitted') =>
          /\ emitted' = <<TextEvent(Composed(pendingDeadkey, last'.output))>>
          /\ pendingDeadkey' = Null]_vars

C3_Witness ==
    /\ PrintableCommitted /\ last.output = "a"
    /\ emitted = <<TextEvent(ACirc)>>
    /\ pendingDeadkey = Null

(***************************************************************************)
(* C4  Deadkey trigger: with no deadkey pending, a printable key whose     *)
(* output is a trigger of the layout's deadkey table emits nothing and     *)
(* makes it the pending deadkey; any other non-empty output is emitted as  *)
(* one text append and the pending deadkey stays null.                     *)
(***************************************************************************)
C4_DeadkeyTrigger ==
    [][(pendingDeadkey = Null /\ PrintableCommitted') =>
          IF last'.output \in DOMAIN deadkeyTable
          THEN emitted' = <<>> /\ pendingDeadkey' = last'.output
          ELSE emitted' = <<TextEvent(last'.output)>>
               /\ pendingDeadkey' = Null]_vars

C4_Witness ==
    /\ PrintableCommitted /\ last.output = "^"
    /\ emitted = <<>>
    /\ pendingDeadkey = "^"

(***************************************************************************)
(* C6  Layer precedence: with symbols mode off the active layer is the     *)
(* first rule of the precedence order cmd+alt+shift, cmd+alt, cmd+shift,   *)
(* cmd, alt+shift, alt+caps, alt, ctrl+shift, ctrl, caps+shift, caps,      *)
(* shift, default whose modifiers are all active; cmd, alt and shift       *)
(* together give cmd+alt+shift.                                            *)
(***************************************************************************)
C6_LayerPrecedence ==
    /\ getActiveLayer(modifiers) = FirstMatch(ActiveSet)
    /\ ~isSymbolsActive => activeLayer = FirstMatch(ActiveSet)
    /\ (isCmdActive /\ isAltActive /\ isShiftActive /\ ~isSymbolsActive) =>
          activeLayer = "cmd+alt+shift"

C6_Witness ==
    /\ isCmdActive /\ isAltActive /\ isShiftActive
    /\ activeLayer = "cmd+alt+shift"
    /\ Activated /\ last.key = "KeyQ" /\ last.layer = "cmd+alt+shift"
    /\ emitted = <<TextEvent("3")>>

(***************************************************************************)
(* C5  Layout swap resets the engine: whenever the active layout has just  *)
(* been replaced, the pending deadkey is null and every modifier flag and  *)
(* click-latch is false, so nothing set under the old layout is applied    *)
(* against the new one.                                                    *)
(***************************************************************************)
EngineReset ==
    /\ pendingDeadkey = Null
    /\ ~isShiftActive /\ ~isCapsLockActive /\ ~isAltActive /\ ~isCmdActive
    /\ ~isCtrlActive /\ ~isSymbolsActive /\ ~isSymbols2Active
    /\ NoLatch

C5_LayoutSwapResets == last.op = "load" => EngineReset

(***************************************************************************)
(* C7  Symbols override: while the symbols flag is active the active layer *)
(* is symbols-2 if symbols2 is set and symbols-1 otherwise, whatever       *)
(* shift, caps, alt, cmd and ctrl are; a key is then resolved on that      *)
(* layer and commits its symbols output.                                   *)
(***************************************************************************)
SymbolsLayer == IF isSymbols2Active THEN "symbols-2" ELSE "symbols-1"

\* what mobile-r0-k0 can commit on a symbols layer: its output there, alone
\* or after a deadkey that was pending
SymbolsTexts ==
    LET c == IF isSymbols2Active THEN "[" ELSE "1"
    IN  {c, "~" \o c, "^" \o c}

C7_SymbolsOverride ==
    /\ isSymbolsActive => activeLayer = SymbolsLayer
    /\ (isSymbolsActive /\ Activated /\ last.kind = "printable") =>
          last.layer = SymbolsLayer
    /\ (isSymbolsActive /\ Activated /\ last.key = "mobile-r0-k0") =>
          /\ Len(emitted) = 1
          /\ emitted[1].text \in SymbolsTexts

C7_Witness ==
    /\ isSymbolsActive /\ isSymbols2Active
    /\ isShiftActive /\ isCapsLockActive
    /\ Activated /\ last.key = "mobile-r0-k0"
    /\ emitted = <<TextEvent("[")>>

(***************************************************************************)
(* C8  Output lookup fallback.  As claimed: the entry of the requested     *)
(* layer when it is present and non-empty; otherwise, for symbols-2 only,  *)
(* the symbols-1 entry if non-empty; otherwise the default entry; a        *)
(* present but empty entry counts as absent.                               *)
(* As the code has it: an entry that is present is returned even when it   *)
(* is empty; only an absent entry falls back.                              *)
(***************************************************************************)
Present(key, n) == "layers" \in DOMAIN key /\ n \in DOMAIN key.layers
NonEmpty(key, n) == Present(key, n) /\ key.layers[n] # ""
DefaultOf(key) == IF NonEmpty(key, "default") THEN key.layers["default"] ELSE ""

ClaimedOutputFor(key, layer) ==
    CASE NonEmpty(key, layer) -> key.layers[layer]
      [] ~NonEmpty(key, layer) /\ layer = "symbols-2"
            /\ NonEmpty(key, "symbols-1") -> key.layers["symbols-1"]
      [] OTHER -> DefaultOf(key)

ActualOutputFor(key, layer) ==
    CASE Present(key, layer) -> key.layers[layer]
      [] ~Present(key, layer) /\ layer = "symbols-2"
            /\ NonEmpty(key, "symbols-1") -> key.layers["symbols-1"]
      [] OTHER -> DefaultOf(key)

C8_OutputLookupAsClaimed ==
    fnOut.fn = "getKeyOutput" => fnOut.out = ClaimedOutputFor(fnKey, fnLayer)

C8_OutputLookup ==
    /\ fnOut.fn = "getKeyOutput" => fnOut.out = ActualOutputFor(fnKey, fnLayer)
    /\ (/\ fnOut.fn = "getOutputChar"
        /\ fnLayer \notin {"symbols-1", "symbols-2"}
        /\ Present(fnKey, "default"))
       => fnOut.out = IF Present(fnKey, fnLayer) THEN fnKey.layers[fnLayer]
                      ELSE fnKey.layers["default"]

C8_Witness ==
    /\ fnOut.fn = "getKeyOutput"
    /\ fnLayer = "shift"
    /\ Present(fnKey, "shift") /\ ~NonEmpty(fnKey, "shift")
    /\ NonEmpty(fnKey, "default")
    /\ fnOut.out = ""

(***************************************************************************)
(* C9  A click-latched modifier flag is cleared only by the next commit.   *)
(* As claimed: in every step of a key event taken while a modifier is      *)
(* click-latched, the flag stays set unless the step commits; in           *)
(* particular a virtual click on the same modifier leaves it set.          *)
(* As the code has it: a virtual click on the latched modifier toggles     *)
(* flag and latch off (for Shift, unless symbols mode is on, where the     *)
(* click flips symbols-2 instead); the key-up of the modifier and every    *)
(* other non-committing key event leave the flag set, and only a physical  *)
(* key-down of the same modifier drops the latch.                          *)
(***************************************************************************)
KeyEvent == last.op \in {"click", "keydown", "keyup"}

RepeatClick(m) ==
    /\ last.op = "click"
    /\ last.key \in KeyIdsOf(m)
    /\ ~(m = "shift" /\ last.layer \in {"symbols-1", "symbols-2"})

C9_LatchClearedOnlyByCommitAsClaimed ==
    [][\A m \in Mods :
        (LatchOf(m) /\ FlagOf(m) /\ KeyEvent' /\ ~Committed')
            => FlagOf(m)']_vars

C9_LatchClearedOnlyByCommit ==
    [][\A m \in Mods :
        (LatchOf(m) /\ FlagOf(m) /\ KeyEvent')
            => /\ (Committed' \/ RepeatClick(m)') => (~FlagOf(m)' /\ ~LatchOf(m)')
               /\ ~(Committed' \/ RepeatClick(m)')
                    => /\ FlagOf(m)'
                       /\ LatchOf(m)' = ~(/\ last'.op = "keydown"
                                          /\ last'.key \in KeyIdsOf(m))]_vars

C9_Witness ==
    /\ last.op = "click"
    /\ last.key = "AltLeft"
    /\ last.latch
    /\ ~isAltActive
    /\ ~altClickMode

(***************************************************************************)
(* C10  Backspace.  With a deadkey pending, activating Backspace sets the  *)
(* pending deadkey to null and calls no consumer callback; with none       *)
(* pending it issues exactly one delete request and no text.  Either way   *)
(* no modifier is click-latched afterwards, and the flags that were        *)
(* latched are off.                                                        *)
(***************************************************************************)
C10_Backspace ==
    [][(last'.kind = "backspace" /\ Activated')
        => /\ pendingDeadkey' = Null
           /\ emitted' = IF pendingDeadkey # Null THEN <<>>
                         ELSE <<BackspaceEvent>>
           /\ NoLatch'
           /\ \A m \in Mods : FlagOf(m)' = (FlagOf(m) /\ ~LatchOf(m))]_vars

C10_Witness ==
    /\ last.kind = "backspace"
    /\ last.op = "click"
    /\ emitted = <<>>
    /\ pendingDeadkey = Null
    /\ NoLatch

(***************************************************************************)
(* C11  Enter and Tab.  With a deadkey d pending, activating Enter (Tab)   *)
(* emits d first and the newline (tab) character second, and nothing       *)
(* else; with none pending only the newline (tab) is emitted.  The pending *)
(* deadkey is null afterwards, no modifier is click-latched, and the flags *)
(* that were latched are off.                                              *)
(***************************************************************************)
SpecialChar(kind) == IF kind = "enter" THEN Newline ELSE TabChar

C11_EnterAndTab ==
    [][(last'.kind \in {"enter", "tab"} /\ Activated')
        => /\ emitted' = IF pendingDeadkey # Null
                         THEN <<TextEvent(pendingDeadkey),
                                TextEvent(SpecialChar(last'.kind))>>
                         ELSE <<TextEvent(SpecialChar(last'.kind))>>
           /\ pendingDeadkey' = Null
           /\ NoLatch'
           /\ \A m \in Mods : FlagOf(m)' = (FlagOf(m) /\ ~LatchOf(m))]_vars

C11_Witness ==
    /\ last.kind = "enter"
    /\ last.op = "click"
    /\ Len(emitted) = 2
    /\ emitted[1] = TextEvent("^")
    /\ emitted[2] = TextEvent(Newline)
    /\ pendingDeadkey = Null

(***************************************************************************)
(* C12  Caps lock.  Every activation of CapsLock (virtual click or         *)
(* physical key-down) flips the caps flag; no other key event changes it:  *)
(* not a committed character or special action, and not the key-up of      *)
(* CapsLock.                                                               *)
(***************************************************************************)
CapsActivated == Activated /\ last.key = CAPS_LOCK_KEY

C12_CapsLock ==
    [][KeyEvent' =>
        isCapsLockActive' = IF CapsActivated' THEN ~isCapsLockActive
                            ELSE isCapsLockActive]_vars

C12_Witness ==
    /\ last.op = "keyup"
    /\ last.key = CAPS_LOCK_KEY
    /\ isCapsLockActive

(***************************************************************************)
(* C13  Symbols toggle.  Activating the mobile symbols key flips the       *)
(* symbols flag; when that turns symbols off, symbols2 is false            *)
(* afterwards, otherwise symbols2 is unchanged.  Nothing is emitted and    *)
(* shift, caps, alt, cmd, ctrl, the latches and the pending deadkey stay   *)
(* as they were.                                                           *)
(***************************************************************************)
SymbolsActivated == Activated /\ last.key \in SYMBOLS_KEYS

C13_SymbolsToggle ==
    [][SymbolsActivated' =>
        /\ isSymbolsActive' = ~isSymbolsActive
        /\ isSymbols2Active' = (isSymbolsActive' /\ isSymbols2Active)
        /\ emitted' = <<>>
        /\ UNCHANGED <<isShiftActive, shiftClickMode, isAltActive,
                       altClickMode, isCmdActive, cmdClickMode, isCtrlActive,
                       ctrlClickMode,
                       isCapsLockActive, pendingDeadkey>>]_vars

\* symbols mode was left from its second page: the layer the click was
\* handled on was symbols-2
C13_Witness ==
    /\ SymbolsActivated
    /\ last.layer = "symbols-2"
    /\ ~isSymbolsActive
    /\ ~isSymbols2Active

(***************************************************************************)
(* C15  clearState.  After clearState, whatever the state it was called    *)
(* in, shift, caps, alt, cmd, ctrl, symbols and symbols2 are false, the    *)
(* four click-latches are false, the pending deadkey and the pressed-key   *)
(* indicator are null, and exactly one clear request went to the consumer. *)
(***************************************************************************)
C15_ClearState ==
    last.op = "clear" =>
        /\ \A m \in Mods : ~FlagOf(m) /\ ~LatchOf(m)
        /\ ~isCapsLockActive /\ ~isSymbolsActive /\ ~isSymbols2Active
        /\ pendingDeadkey = Null
        /\ pressedKeyId = Null
        /\ emitted = <<ClearEvent>>

\* clearState was called on the second symbols page
C15_Witness ==
    /\ last.op = "clear"
    /\ last.layer = "symbols-2"
    /\ emitted = <<ClearEvent>>
    /\ activeLayer = "default"
    /\ pressedKeyId = Null

(***************************************************************************)
(* C16  A printable key without output.  When the output of a printable    *)
(* key on the active layer is empty, activating it emits nothing and       *)
(* leaves the pending deadkey, every modifier flag and every click-latch   *)
(* as they were; a latched modifier stays latched.                         *)
(***************************************************************************)
C16_EmptyOutputNoOp ==
    [][(Activated' /\ last'.kind = "printable" /\ last'.output = "")
        => /\ emitted' = <<>>
           /\ UNCHANGED <<modvars, pendingDeadkey>>]_vars

C16_Witness ==
    /\ Activated
    /\ last.kind = "printable"
    /\ last.output = ""
    /\ isShiftActive /\ shiftClickMode
    /\ pendingDeadkey # Null

(***************************************************************************)
(* C14  No active layout.  While the layout is null every engine operation *)
(* (a virtual click of any key, a physical key-down, a physical key-up) is *)
(* a no-op: no text append, no delete request, and every modifier flag,    *)
(* click-latch, the pending deadkey and the pressed-key indicator stay as  *)
(* they were.                                                              *)
(***************************************************************************)
C14_NoLayoutNoOp ==
    [][(layout = NoLayout /\ KeyEvent')
        => /\ emitted' = <<>>
           /\ UNCHANGED <<modvars, pendingDeadkey, pressedKeyId>>]_vars

(***************************************************************************)
(* Vocabulary of the transformer properties.  The code throws plain Error  *)
(* objects; the three kinds of failure are told apart by their message.    *)
(***************************************************************************)
TransformApplied == txResult.fn = "transformKbdgenToLayout"

UnsupportedPlatformError(r) ==
    r.kind = "error" /\ r.message = PlatformNotFound(platform)

MissingLayerError(r) ==
    /\ r.kind = "error"
    /\ r.message \in {NoLayersFound(platform, v) : v \in RequestVariants}
                       \cup {NoDefaultLayerFound}

NoPlatformsAvailableError(r) ==
    r.kind = "error" /\ r.message = NoPlatformsFound

\* the variant data of that name has a non-empty default layer string
HasDefaultLayer(platformData, name) ==
    /\ Has(platformData, name)
    /\ Has(platformData[name], "layers")
    /\ Has(platformData[name].layers, "default")
    /\ platformData[name].layers["default"] # ""

\* the layer bundle a request names: variants exist on mobile platforms only
RequestedBundle == IF isMobilePlatform(platform) THEN variant ELSE "primary"

NoRecognizedPlatform ==
    \A i \in DOMAIN ViewerPlatforms : ~Has(kbdgenData, ViewerPlatforms[i])

(***************************************************************************)
(* C17  Missing platform.  Transforming a source definition for a platform *)
(* that is absent from it fails with the platform-not-found error and      *)
(* yields no layout, for desktop and mobile platforms alike.               *)
(***************************************************************************)
C17_UnsupportedPlatform ==
    (TransformApplied /\ ~Has(kbdgenData, platform))
        => UnsupportedPlatformError(txResult.out)

\* a mobile platform is asked of a source that has other platforms
C17_Witness ==
    /\ TransformApplied
    /\ platform = "iOS"
    /\ ~Has(kbdgenData, "iOS")
    /\ Has(kbdgenData, "macOS")
    /\ txResult.out = Thrown(PlatformNotFound("iOS"))

(***************************************************************************)
(* C18  Missing default layer.  Transforming for a platform that is        *)
(* present but whose requested platform/variant has no layer bundle, or a  *)
(* bundle without a non-empty default string, fails with the               *)
(* missing-layer error and yields no layout.                               *)
(***************************************************************************)
C18_MissingLayer ==
    (/\ TransformApplied
     /\ Has(kbdgenData, platform)
     /\ ~HasDefaultLayer(kbdgenData[platform], RequestedBundle))
        => MissingLayerError(txResult.out)

\* the primary bundle of macOS has an empty default layer
C18_Witness ==
    /\ TransformApplied
    /\ platform = "macOS"
    /\ Has(kbdgenData, "macOS")
    /\ Has(kbdgenData["macOS"], "primary")
    /\ Has(kbdgenData["macOS"]["primary"], "layers")
    /\ kbdgenData["macOS"]["primary"].layers = ("default" :> "")
    /\ txResult.out = Thrown(NoLayersFound("macOS", "primary"))

(***************************************************************************)
(* C19  Variant fallback.  As claimed: a mobile platform transformed with  *)
(* a variant that the source does not have, while its primary variant has  *)
(* a default layer, yields the layout of the primary variant.              *)
(* As the code has it: there is no fallback for a mobile platform; the     *)
(* transformation fails with the missing-layer error naming the requested  *)
(* variant.  Only a desktop platform ignores the variant and is built from *)
(* primary.                                                                *)
(***************************************************************************)
VariantAbsent ==
    /\ isMobilePlatform(platform)
    /\ Has(kbdgenData, platform)
    /\ variant # "primary"
    /\ ~Has(kbdgenData[platform], variant)
    /\ HasDefaultLayer(kbdgenData[platform], "primary")

BuiltFromPrimary(r) ==
    /\ r.kind = "layout"
    /\ r.rows = kbdgenData[platform]["primary"].layers["default"]

C19_VariantFallbackAsClaimed ==
    (TransformApplied /\ VariantAbsent) => BuiltFromPrimary(txResult.out)

C19_VariantFallback ==
    /\ (TransformApplied /\ VariantAbsent)
          => txResult.out = Thrown(NoLayersFound(platform, variant))
    /\ (/\ TransformApplied
        /\ ~isMobilePlatform(platform)
        /\ Has(kbdgenData, platform)
        /\ HasDefaultLayer(kbdgenData[platform], "primary"))
          => BuiltFromPrimary(txResult.out) /\ txResult.out.variant = "primary"

C19_Witness ==
    /\ TransformApplied
    /\ VariantAbsent
    /\ platform = "android"
    /\ variant = "tablet-600"
    /\ txResult.out.kind = "error"

(***************************************************************************)
(* C20  No platforms.  As claimed: on a source definition without any      *)
(* recognized platform the transformer itself fails with the no-platforms  *)
(* error.                                                                  *)
(* As the code has it: getAvailablePlatforms returns the empty list and    *)
(* does not fail; the no-platforms error is raised by the caller: the      *)
(* layout route answers 400 with it and runs no transformation, so nothing *)
(* is retried.                                                             *)
(***************************************************************************)
C20_NoPlatformsAsClaimed ==
    (/\ NoRecognizedPlatform
     /\ txResult.fn \in {"getAvailablePlatforms", "transformKbdgenToLayout"})
        => NoPlatformsAvailableError(txResult.out)

C20_NoPlatforms ==
    NoRecognizedPlatform =>
        /\ txResult.fn = "getAvailablePlatforms"
              => txResult.out = [kind |-> "returned", value |-> <<>>]
        /\ txResult.fn = "GET"
              => txResult.out = [status |-> 400, error |-> NoPlatformsFound,
                                 calls |-> 0]

\* the source has a platform, but none that the viewer recognizes
C20_Witness ==
    /\ NoRecognizedPlatform
    /\ Has(kbdgenData, "chrome")
    /\ txResult.fn = "GET"
    /\ txResult.out.status = 400
    /\ txResult.out.calls = 0

(***************************************************************************)
(* C30  Every printable branch that is not a no-op clears the latches.     *)
(* Composing with a pending deadkey, arming a new pending deadkey (which   *)
(* emits nothing) and emitting a plain character each leave the four       *)
(* click-latch flags false and every modifier that was latched inactive;   *)
(* a modifier that was active without latch stays active.                  *)
(***************************************************************************)
PrintableBranch ==
    IF pendingDeadkey # Null THEN "compose"
    ELSE IF isDeadkey(last'.output) THEN "trigger"
    ELSE "plain"

C30_PrintableBranchesClearLatches ==
    [][PrintableCommitted' =>
        /\ PrintableBranch = "compose" => Len(emitted') = 1
        /\ PrintableBranch = "trigger" => emitted' = <<>> /\ pendingDeadkey' # Null
        /\ PrintableBranch = "plain" => emitted' = <<TextEvent(last'.output)>>
        /\ NoLatch'
        /\ \A m \in Mods : FlagOf(m)' = (FlagOf(m) /\ ~LatchOf(m))]_vars

\* a deadkey was armed on the shift layer by a key without shift entry, and
\* shift, which can only have been latched, is off
C30_Witness ==
    /\ PrintableCommitted
    /\ last.layer = "shift"
    /\ last.output = "^"
    /\ pendingDeadkey = "^"
    /\ emitted = <<>>
    /\ ~isShiftActive
    /\ NoLatch

(***************************************************************************)
(* C24  Caps/Shift inversion.  With alt, cmd, ctrl and symbols inactive    *)
(* and no deadkey pending, a key whose default output is a lowercase       *)
(* letter commits the entry of its "shift", "caps" or "caps+shift" layer   *)
(* (shift only, caps only, both) and its default output when it has no     *)
(* such entry; an entry that is present but empty commits nothing.  So     *)
(* with exactly one of caps and shift active the committed                 *)
(* character is the uppercase form exactly when the key defines that layer *)
(* with the uppercase form, and with both active it is the lowercase form  *)
(* when the "caps+shift" entry is absent or holds the lowercase form.      *)
(***************************************************************************)
\* the lowercase letters on the layouts and String.prototype.toUpperCase
LowercaseLetters == {"q", "a", "z"}
toUpperCase(c) ==
    IF c = "q" THEN "Q" ELSE IF c = "a" THEN "A" ELSE IF c = "z" THEN "Z" ELSE c

KeyById(id) == CHOOSE k \in KeysOf(layout) : k.id = id

\* a letter key is activated with only caps and shift possibly active
LetterActivation ==
    /\ layout # Null
    /\ Activated'
    /\ last'.kind = "printable"
    /\ DefaultOf(KeyById(last'.key)) \in LowercaseLetters
    /\ ~isAltActive /\ ~isCmdActive /\ ~isCtrlActive /\ ~isSymbolsActive
    /\ pendingDeadkey = Null
    /\ isShiftActive \/ isCapsLockActive

CapsShiftLayer ==
    IF isShiftActive /\ isCapsLockActive THEN "caps+shift"
    ELSE IF isCapsLockActive THEN "caps"
    ELSE "shift"

ResolvedNames == {e.layer : e \in resolved}

FunctionOfFlags ==
    \A e, f \in resolved :
        (~e.symbols /\ ~f.symbols /\ e.modifiers = f.modifiers)
            => e.layer = f.layer

C25_FourteenLayerNames ==
    /\ Cardinality(ResolvedNames) <= 14
    /\ FunctionOfFlags

C25_ResolvedLayerNames ==
    /\ ResolvedNames \subseteq LayerNames
    /\ \A e \in resolved : ~e.symbols => e.layer \in DesktopLayerNames
    /\ \A e \in resolved :
          e.symbols => e.layer = IF e.symbols2 THEN "symbols-2" ELSE "symbols-1"
    /\ FunctionOfFlags
    /\ activeLayer \in LayerNames

\* every ModifierState was resolved and all fifteen names came out
C25_Witness ==
    /\ ResolvedNames = LayerNames
    /\ Cardinality(resolved) = Cardinality({<<s.shift, s.caps, s.alt, s.cmd,
                                              s.ctrl, s.symbols, s.symbols2>> :
                                            s \in ModifierStates})

(***************************************************************************)
(* C28  The interactive flag of the embed.  Interaction is on unless the   *)
(* "interactive" URL parameter is exactly "false", and while it is off no  *)
(* input event, neither a click on a rendered key nor a key press or       *)
(* release on the physical keyboard, changes the modifier flags and        *)
(* latches, the pending deadkey, the active layer or the pressed key.      *)
(***************************************************************************)
C28_NonInteractiveIgnoresInput ==
    [][/\ interactive <=> searchParam # "false"
       /\ (~interactive /\ KeyEvent') =>
              /\ UNCHANGED <<modvars, pendingDeadkey, pressedKeyId>>
              /\ activeLayer' = activeLayer]_vars

KeysBuilt == txResult.fn = "transformKeys" /\ txResult.out.kind = "layout"

\* the layer bundle the layout was built from
SourceLayers == kbdgenData[platform]["primary"].layers

\* all keys of the returned layout, as <<row, column, key>>
BuiltKeys ==
    LET rows == txResult.out.rows
    IN  UNION {{<<r, k, rows[r][k]>> : k \in DOMAIN rows[r]} : r \in DOMAIN rows}

(***************************************************************************)
(* C23  Merge of the transform tables.  The deadkey table of the layout    *)
(* has exactly the triggers of the top-level table and of the platform's   *)
(* table; a trigger of the platform's table has the platform's entry, also *)
(* when the top-level table defines it too, and a trigger of the top-level *)
(* table alone has the top-level entry.                                    *)
(***************************************************************************)
C23_TransformTableMerge ==
    KeysBuilt =>
        LET top == IF "transforms" \in DOMAIN kbdgenData
                   THEN kbdgenData["transforms"] ELSE Empty
            own == IF "transforms" \in DOMAIN kbdgenData[platform]
                   THEN kbdgenData[platform]["transforms"] ELSE Empty
            deadkeys == txResult.out.deadkeys
        IN  /\ DOMAIN deadkeys = DOMAIN top \cup DOMAIN own
            /\ \A t \in DOMAIN own : deadkeys[t] = own[t]
            /\ \A t \in DOMAIN top \ DOMAIN own : deadkeys[t] = top[t]

\* "^" is defined at the top level and, differently, by the platform, "~"
\* at the top level only
C23_Witness ==
    /\ KeysBuilt
    /\ "transforms" \in DOMAIN kbdgenData
    /\ "transforms" \in DOMAIN kbdgenData[platform]
    /\ kbdgenData["transforms"] =
           ("^" :> ("a" :> ACirc)) @@ ("~" :> ("a" :> ATilde))
    /\ kbdgenData[platform]["transforms"] = ("^" :> ("A" :> UpACirc))
    /\ txResult.out.deadkeys =
           ("^" :> ("A" :> UpACirc)) @@ ("~" :> ("a" :> ATilde))

(***************************************************************************)
(* C21  Desktop layer assembly.  As claimed: every ISO position (row r,    *)
(* column k) has a key, and for every desktop layer name L other than      *)
(* default the key's layers contain L exactly when the source defines      *)
(* layer L and the grid parsed from it has a non-empty token at (r, k),    *)
(* and the entry is that token; default is always there, with the token    *)
(* of the default grid at (r, k), or the empty string when the default     *)
(* grid has no such cell.                                                  *)
(* As the code has it: this holds of every position in a row for which the *)
(* default layer has a line; a row without a line in the default layer is  *)
(* not built, so its positions have no key.                                *)
(***************************************************************************)
SourceGrids ==
    [n \in {n \in DOMAIN SourceLayers : SourceLayers[n] # ""}
        |-> parseLayerString(SourceLayers[n])]

IsoRows ==
    <<ISO_KEY_POSITIONS.row1, ISO_KEY_POSITIONS.row2, ISO_KEY_POSITIONS.row3,
      ISO_KEY_POSITIONS.row4>>

HasToken(L, r, k) ==
    /\ L \in DOMAIN SourceGrids
    /\ r \in DOMAIN SourceGrids[L]
    /\ k \in DOMAIN SourceGrids[L][r]
    /\ SourceGrids[L][r][k] # ""

\* the layout has the key of position (r, k) with the layers of the cells
AssembledAt(r, k) ==
    \E e \in BuiltKeys :
        /\ e[1] = r
        /\ e[3].id = IsoRows[r][k]
        /\ DOMAIN e[3].layers \subseteq DesktopLayerNames
        /\ "default" \in DOMAIN e[3].layers
        /\ e[3].layers["default"] =
               IF HasToken("default", r, k)
               THEN SourceGrids["default"][r][k] ELSE ""
        /\ \A L \in DesktopLayerNames \ {"default"} :
               /\ L \in DOMAIN e[3].layers <=> HasToken(L, r, k)
               /\ HasToken(L, r, k) => e[3].layers[L] = SourceGrids[L][r][k]

C21_AssemblyAtEveryPosition ==
    (KeysBuilt /\ ~isMobilePlatform(platform)) =>
        \A r \in DOMAIN IsoRows : \A k \in DOMAIN IsoRows[r] : AssembledAt(r, k)

C21_DesktopLayerAssembly ==
    (KeysBuilt /\ ~isMobilePlatform(platform)) =>
        \A r \in DOMAIN IsoRows : \A k \in DOMAIN IsoRows[r] :
            IF r \in DOMAIN SourceGrids["default"]
            THEN AssembledAt(r, k)
            ELSE \A e \in BuiltKeys : e[3].id # IsoRows[r][k]

\* the default layer has no cell for Equal, the shift layer has "+", and
\* there is no caps layer
C21_Witness ==
    /\ KeysBuilt
    /\ platform = "macOS"
    /\ SourceLayers["default"] = "1\nq w"
    /\ "shift" \in DOMAIN SourceLayers
    /\ "caps" \notin DOMAIN SourceLayers
    /\ \E e \in BuiltKeys :
          e[3] = K("Equal", ("default" :> "") @@ ("shift" :> "+"))

(***************************************************************************)
(* C22  Mobile spacer tokens.  A spacer token gives no key: every row of a *)
(* mobile layout has as many keys as its line of the default layer has     *)
(* tokens that are not spacers.  Spacer tokens do not move the other keys: *)
(* the layout has the same rows, key for key with the same ids and layers, *)
(* as the layout of the source with every spacer token taken out of every  *)
(* layer string.                                                           *)
(***************************************************************************)
IsSpacer(token) == parseMobileKey(token) = <<>>

RECURSIVE Join(_, _)
Join(strings, sep) ==
    IF strings = <<>> THEN ""
    ELSE IF Len(strings) = 1 THEN strings[1]
    ELSE strings[1] \o sep \o Join(Tail(strings), sep)

TokensOf(line) == splitWhitespace(trim(line))

\* the layer string without its spacer tokens
StripSpacers(layerString) ==
    LET lines == splitLines(trim(layerString))
    IN  Join([i \in 1..Len(lines) |->
                 Join(SelectSeq(TokensOf(lines[i]), LAMBDA t : ~IsSpacer(t)),
                      " ")],
             "\n")

WithoutSpacers(data, p) ==
    [data EXCEPT ![p]["primary"].layers =
        [n \in DOMAIN @ |-> StripSpacers(@[n])]]

HasSpacer(layerString) ==
    \E line \in {splitLines(trim(layerString))[i] :
                    i \in 1..Len(splitLines(trim(layerString)))} :
        \E i \in 1..Len(TokensOf(line)) : IsSpacer(TokensOf(line)[i])

C27_KeyIdsUnique ==
    KeysBuilt =>
        \A e, f \in BuiltKeys :
            e[3].id = f[3].id => (e[1] = f[1] /\ e[2] = f[2])

(***************************************************************************)
(* C31  Lifetime of the pending deadkey.  As claimed: the key event that   *)
(* follows the press which set the pending deadkey, whatever key it        *)
(* concerns, leaves the pending deadkey null.  As the code has it: the     *)
(* pending deadkey is null after the next key activation that commits (a   *)
(* virtual click or handled key-down of Backspace, Enter, Tab or of a      *)
(* printable key with non-empty output on the active layer), and every     *)
(* other key event (a click, key-down or key-up of a modifier or of the    *)
(* symbols key, any key-up, a key with empty output) leaves it as it is.   *)
(***************************************************************************)
C31_ClearedByFollowingKeyEvent ==
    [][(PrintableCommitted /\ pendingDeadkey # Null /\ KeyEvent')
          => pendingDeadkey' = Null]_vars

C31_PendingDeadkeyLifetime ==
    [][(pendingDeadkey # Null /\ KeyEvent')
          => IF Committed' THEN pendingDeadkey' = Null
             ELSE pendingDeadkey' = pendingDeadkey]_vars

\* the deadkey is still pending after the key event that followed its
\* press, a virtual click on Shift
C31_Witness ==
    /\ pendingDeadkey = "^"
    /\ last.op = "click"
    /\ last.key = "ShiftLeft"
    /\ isShiftActive

(***************************************************************************)
(* C32  Rows of a desktop layout.  As claimed: every desktop layout has    *)
(* the five fixed rows in order (number row and Backspace; Tab, letters,   *)
(* Enter; CapsLock, letters; ShiftLeft, letters, ShiftRight; Ctrl, Cmd,    *)
(* Alt, Space, Alt, Cmd, Ctrl), each with its fixed keys whatever the      *)
(* lines and tokens of the layer strings.  As the code has it: the layout  *)
(* has, in that order, the first n of the four rows of letters, n being    *)
(* the number of lines of the default layer up to four, and then the       *)
(* bottom row; every row it has holds its fixed keys whatever the tokens.  *)
(***************************************************************************)
\* the key ids of the five fixed rows
FixedRowIds ==
    << ISO_KEY_POSITIONS.row1 \o <<"Backspace">>,
       <<"Tab">> \o ISO_KEY_POSITIONS.row2 \o <<"Enter">>,
       <<"CapsLock">> \o ISO_KEY_POSITIONS.row3,
       <<"ShiftLeft">> \o ISO_KEY_POSITIONS.row4 \o <<"ShiftRight">>,
       <<"ControlLeft", "MetaLeft", "AltLeft", "Space", "AltRight",
         "MetaRight", "ControlRight">> >>

\* the key ids of the returned layout, row by row
BuiltRowIds ==
    [r \in DOMAIN txResult.out.rows |->
        [k \in DOMAIN txResult.out.rows[r] |-> txResult.out.rows[r][k].id]]

\* lines of the default layer that get a row
DefaultLines ==
    IF Len(SourceGrids["default"]) < 4 THEN Len(SourceGrids["default"]) ELSE 4

C32_FiveFixedRows ==
    (KeysBuilt /\ ~isMobilePlatform(platform)) => BuiltRowIds = FixedRowIds

C32_DesktopRows ==
    (KeysBuilt /\ ~isMobilePlatform(platform)) =>
        BuiltRowIds = SubSeq(FixedRowIds, 1, DefaultLines) \o <<FixedRowIds[5]>>

\* a default layer of five lines, with three tokens on the first and one on
\* the second, gives the five fixed rows
C32_Witness ==
    /\ KeysBuilt
    /\ platform = "macOS"
    /\ SourceLayers["default"] = "1 = 2\nq\na s\n< /\n5"
    /\ BuiltRowIds = FixedRowIds

(***************************************************************************)
(* C33  Latch implies active: in every reachable state, for each of shift, *)
(* alt, cmd and ctrl, the click-latch flag is true only while the          *)
(* modifier's flag is true, whatever clicks, physical key-downs and        *)
(* key-ups, commits and clearState came before.                            *)
(***************************************************************************)
C33_LatchImpliesActive == \A m \in Mods : LatchOf(m) => FlagOf(m)

\* alt is latched and active after the physical key-up of the Alt key
C33_Witness ==
    /\ altClickMode
    /\ isAltActive
    /\ last.op = "keyup"
    /\ last.key = "AltLeft"

(***************************************************************************)
(* C34  The pending deadkey is a trigger.  A step that does not replace    *)
(* the active layout keeps the pending deadkey null or a trigger (a        *)
(* top-level key) of the active layout's deadkey table; it is null when    *)
(* the first layout arrives.                                               *)
(***************************************************************************)
PendingIsTrigger ==
    \/ pendingDeadkey = Null
    \/ layout # NoLayout /\ pendingDeadkey \in DOMAIN Layouts[layout].deadkeys

C34_PendingDeadkeyIsTrigger ==
    [][/\ layout = NoLayout => pendingDeadkey = Null
       /\ (layout' = layout /\ PendingIsTrigger) => PendingIsTrigger']_vars

\* the "~" key of the mobile layout has just made "~" the pending deadkey
C34_Witness ==
    /\ layout = "mobile"
    /\ PrintableCommitted
    /\ last.output = "~"
    /\ pendingDeadkey = "~"

(***************************************************************************)
(* C35  Symbols-2 implies symbols: in every reachable state the symbols-2  *)
(* flag is true only while symbols mode is on, whatever key clicks,        *)
(* physical key events and clearState came before.                         *)
(***************************************************************************)
C35_Symbols2ImpliesSymbols == isSymbols2Active => isSymbolsActive

\* the second symbols page is showing after a click on Shift in symbols mode
C35_Witness ==
    /\ isSymbolsActive
    /\ isSymbols2Active
    /\ last.op = "click"
    /\ last.key = "ShiftLeft"
    /\ activeLayer = "symbols-2"

(***************************************************************************)
(* C36  Modifier events touch neither the text nor the deadkey: a virtual  *)
(* click, a physical key-down or a physical key-up of Shift, Alt, Cmd,     *)
(* Ctrl, CapsLock or the symbols key calls no consumer callback and leaves *)
(* the pending deadkey as it is.  So a deadkey followed by Shift and then  *)
(* a letter is composed with the letter of the shift layer.                *)
(***************************************************************************)
ModifierEvent == KeyEvent /\ last.kind = "modifier"

\* a letter is committed while a deadkey is pending and shift, clicked
\* after the deadkey, is the only modifier
ShiftedAfterDeadkey ==
    /\ pendingDeadkey # Null
    /\ shiftClickMode
    /\ ActiveSet = {"shift"}
    /\ ~isSymbolsActive
    /\ PrintableCommitted'

C36_ModifierEventsFrame ==
    [][/\ ModifierEvent' =>
            /\ emitted' = <<>>
            /\ pendingDeadkey' = pendingDeadkey
       /\ ShiftedAfterDeadkey =>
            /\ last'.layer = "shift"
            /\ emitted' =
                   <<TextEvent(Composed(pendingDeadkey, last'.output))>>]_vars

\* "^" was pending while Shift was switched on, and KeyA on the shift layer
\* gave the composed capital
C36_Witness ==
    /\ layout = "desktop"
    /\ PrintableCommitted
    /\ last.key = "KeyA"
    /\ last.layer = "shift"
    /\ last.output = "A"
    /\ emitted = <<TextEvent(UpACirc)>>
    /\ pendingDeadkey = Null

(***************************************************************************)
(* C37  Frame of a commit.  A committed character or special action (a     *)
(* printable key with output, Backspace, Enter, Tab) leaves caps, symbols  *)
(* and symbols-2 as they are and leaves every shift, alt, cmd or ctrl flag *)
(* that is active without latch as it is; the modifier flags it changes    *)
(* are exactly the click-latched ones, which end false with their latch.   *)
(***************************************************************************)
C37_CommitFrame ==
    [][Committed' =>
          /\ isCapsLockActive' = isCapsLockActive
          /\ isSymbolsActive' = isSymbolsActive
          /\ isSymbols2Active' = isSymbols2Active
          /\ \A m \in Mods :
                /\ ~LatchOf(m)'
                /\ FlagOf(m)' = (FlagOf(m) /\ ~LatchOf(m))]_vars

\* Enter was committed with alt latched and a physically held shift, under
\* caps: alt is off, shift and caps are still on
C37_Witness ==
    /\ Committed
    /\ last.kind = "enter"
    /\ last.layer = "alt+shift"
    /\ isShiftActive
    /\ ~isAltActive
    /\ isCapsLockActive

(***************************************************************************)
(* C38  A virtual click on Shift.  In symbols mode it flips symbols-2, so  *)
(* the active layer changes between "symbols-1" and "symbols-2", and       *)
(* leaves the shift flag and the shift latch as they are; with symbols     *)
(* mode off it toggles shift, latching it when it switches it on, and      *)
(* leaves symbols-2 as it is.                                              *)
(***************************************************************************)
ShiftClick == last.op = "click" /\ last.key \in SHIFT_KEYS

C38_ShiftClickInSymbolsMode ==
    [][ShiftClick' =>
          IF isSymbolsActive
          THEN /\ isSymbols2Active' = ~isSymbols2Active
               /\ activeLayer =
                      (IF isSymbols2Active THEN "symbols-2" ELSE "symbols-1")
               /\ activeLayer' =
                      (IF isSymbols2Active THEN "symbols-1" ELSE "symbols-2")
               /\ isShiftActive' = isShiftActive
               /\ shiftClickMode' = shiftClickMode
          ELSE /\ isShiftActive' = ~isShiftActive
               /\ shiftClickMode' = ~isShiftActive
               /\ isSymbols2Active' = isSymbols2Active]_vars

\* a click on Shift brought the keyboard back from the second symbols page
\* to the first while a latched shift stayed on
C38_Witness ==
    /\ ShiftClick
    /\ last.layer = "symbols-2"
    /\ activeLayer = "symbols-1"
    /\ isSymbolsActive
    /\ isShiftActive
    /\ shiftClickMode

(***************************************************************************)
(* GitHubKeyboardSelector: the four selections, the two fetch effects and  *)
(* the responses.  An effect queued by a render runs after the paint       *)
(* (RunEffects) or, when another render comes first, at the start of that   *)
(* render; a select is operable while the rendered loading flag is off.    *)
(***************************************************************************)
MaxFetches == 5

Includes(seq, x) == \E i \in DOMAIN seq : seq[i] = x

\* the parameters of a layout request made with the selections of s
Selection(s) ==
    [repo |-> s.selectedRepo, file |-> s.selectedLayout,
     platform |-> s.selectedPlatform, variant |-> s.selectedVariant]

\* what the two endpoints answer to request q: the files of a repository,
\* and for a file its platforms, the variants of the platform served (the
\* first available one when the requested one is absent) and the layout,
\* identified by the request it answers; a file the repository does not hold
\* is not found
GitHubApi(q) ==
    LET files == IF q.repo = "sme" THEN <<"sme.yaml", "sme-mobile.yaml">>
                 ELSE <<"fao.yaml">>
        availablePlatforms ==
            CASE q.file = "sme.yaml" -> <<"macOS", "iOS">>
              [] q.file = "sme-mobile.yaml" -> <<"iOS">>
              [] OTHER -> <<"macOS">>
        served == IF Includes(availablePlatforms, q.platform) THEN q.platform
                  ELSE availablePlatforms[1]
        availableVariants ==
            IF served # "iOS" THEN <<>>
            ELSE IF q.file = "sme.yaml" THEN <<"primary", "iPad-9in">>
            ELSE <<"primary">>
    IN  [found |-> q.api = "layouts" \/ Includes(files, q.file),
         files |-> files, availablePlatforms |-> availablePlatforms,
         availableVariants |-> availableVariants,
         layout |-> [repo |-> q.repo, file |-> q.file,
                     platform |-> q.platform, variant |-> q.variant]]

\* the first effect up to its await: the request leaves with the repository
\* selected at that moment
fetchLayouts(s) ==
    IF s.selectedRepo = "" THEN s
    ELSE [s EXCEPT !.loading = TRUE, !.error = Null, !.layouts = <<>>,
                   !.selectedLayout = "", !.issued = @ + 1,
                   !.fetches = @ \cup
                       {[id |-> s.issued + 1, api |-> "layouts",
                         repo |-> s.selectedRepo, file |-> "",
                         platform |-> "", variant |-> ""]}]

\* the second effect up to its await: the request leaves with the four
\* selections of that moment
fetchLayout(s) ==
    IF s.selectedRepo = "" \/ s.selectedLayout = "" THEN s
    ELSE [s EXCEPT !.loading = TRUE, !.error = Null, !.issued = @ + 1,
                   !.fetches = @ \cup
                       {[id |-> s.issued + 1, api |-> "layout"]
                            @@ Selection(s)}]

\* one render of the component: the effects still queued run first, in the
\* order of their declaration; then each effect whose dependencies differ
\* from those of the render before is queued; a signal written by an effect
\* that ran renders again
RECURSIVE render(_)
render(s) ==
    LET first == IF 1 \in s.pendingEffects THEN fetchLayouts(s) ELSE s
        second == IF 2 \in s.pendingEffects THEN fetchLayout(first) ELSE first
        args == <<second.selectedRepo,
                  <<second.selectedRepo, second.selectedLayout,
                    second.selectedPlatform, second.selectedVariant>> >>
        next == [second EXCEPT
                     !.args = args,
                     !.pendingEffects = {i \in {1, 2} : args[i] # s.args[i]}]
    IN  IF second = s THEN next ELSE render(next)

SelectorFrame ==
    UNCHANGED <<layout, inflight, modvars, pendingDeadkey, pressedKeyId,
                emitted, last, fnKey, fnLayer, fnOut, txvars, resolved,
                searchParam>>

\* a handler of the selector has run and the component has rendered
Rendered(s, calls) ==
    /\ LET done == render(s)
       IN  /\ done.issued <= MaxFetches
           /\ selector' = done
    /\ delivered' = calls
    /\ SelectorFrame

\* change of the repository select; the list of repositories is loaded
SelectRepo ==
    \E repo \in {"", "sme", "fao"} :
        /\ ~selector.loading
        /\ repo # selector.selectedRepo
        /\ Rendered([selector EXCEPT !.selectedRepo = repo], {})

\* change of the layout select
SelectLayout ==
    \E i \in DOMAIN selector.layouts :
        /\ ~selector.loading
        /\ selector.layouts[i] # selector.selectedLayout
        /\ Rendered([selector EXCEPT !.selectedLayout = selector.layouts[i]],
                    {})

\* change of the platform select, which also resets the variant
SelectPlatform ==
    \E i \in DOMAIN selector.platforms :
        /\ ~selector.loading
        /\ selector.platforms[i] # selector.selectedPlatform
        /\ Rendered([selector EXCEPT
                         !.selectedPlatform = selector.platforms[i],
                         !.selectedVariant = DEFAULT_VARIANT], {})

\* change of the variant select, rendered while variants are listed
SelectVariant ==
    \E i \in DOMAIN selector.variants :
        /\ ~selector.loading
        /\ selector.variants[i] # selector.selectedVariant
        /\ Rendered([selector EXCEPT !.selectedVariant = selector.variants[i]],
                    {})

\* the queued effects run after the paint
RunEffects ==
    /\ selector.pendingEffects # {}
    /\ Rendered(selector, {})

\* fetchLayouts from its await on: the list arrives and its first file is
\* selected, or the request fails
FetchLayoutsSettled ==
    \E q \in selector.fetches, ok \in BOOLEAN :
        /\ q.api = "layouts"
        /\ LET data == GitHubApi(q).files
               rest == [selector EXCEPT !.fetches = @ \ {q}]
               after == IF ok
                        THEN [rest EXCEPT !.layouts = data,
                                          !.selectedLayout = data[1]]
                        ELSE [rest EXCEPT !.error = "failed"]
           IN  Rendered([after EXCEPT !.loading = FALSE], {})

\* fetchLayout from its await on: the lists are stored; a selection that is
\* not available is replaced, otherwise the layout is handed to
\* onLayoutLoaded; or the request fails
FetchLayoutSettled ==
    \E q \in selector.fetches, ok \in BOOLEAN :
        /\ q.api = "layout"
        /\ ok => GitHubApi(q).found
        /\ LET data == GitHubApi(q)
               rest == [selector EXCEPT !.fetches = @ \ {q}]
               listed == [rest EXCEPT
                              !.platforms = data.availablePlatforms,
                              !.variants = data.availableVariants]
               platformOk == Includes(data.availablePlatforms,
                                      rest.selectedPlatform)
               variantOk == \/ Len(data.availableVariants) = 0
                            \/ Includes(data.availableVariants,
                                        rest.selectedVariant)
               after ==
                   IF ~ok THEN [rest EXCEPT !.error = "failed"]
                   ELSE IF ~platformOk
                   THEN [listed EXCEPT !.selectedPlatform =
                             IF Includes(data.availablePlatforms, "macOS")
                             THEN "macOS"
                             ELSE IF Len(data.availablePlatforms) > 0
                             THEN data.availablePlatforms[1] ELSE "macOS"]
                   ELSE IF ~variantOk
                   THEN [listed EXCEPT
                             !.selectedVariant = data.availableVariants[1]]
                   ELSE listed
               calls == IF ok /\ platformOk /\ variantOk
                        THEN {[layout |-> data.layout,
                               selected |-> Selection(rest)]}
                        ELSE {}
           IN  Rendered([after EXCEPT !.loading = FALSE], calls)

NextSelector ==
    \/ SelectRepo
    \/ SelectLayout
    \/ SelectPlatform
    \/ SelectVariant
    \/ RunEffects
    \/ FetchLayoutsSettled
    \/ FetchLayoutSettled

\* the viewer page with its selector
SpecSelector == Init /\ [][NextSelector]_vars

\* C39: every layout the selector hands to onLayoutLoaded answers a request
\* made with the repository, file, platform and variant that are selected at
\* the moment it is handed over
C39_DeliveredIsSelected ==
    \A call \in delivered : call.layout = call.selected
====
